---- MODULE Spec2Model ----
(***************************************************************************)
(* The temporal coordination core of the countdown server (src/server.js,  *)
(* the variant of lines 312-969): the NIST offset and the 24 h window, the *)
(* per-window visit ledger with its cache, the admin reset, consent and    *)
(* clicks, and the payout cycle scheduler the specification describes.     *)
(*                                                                         *)
(* Times are milliseconds since the Unix epoch.  TLC's integers are 32 bit *)
(* wide, so the runs take place in the first days of 1970; the code reads  *)
(* the clock only through differences, remainders modulo one day and the   *)
(* UTC date, which do not depend on the year.                              *)
(***************************************************************************)
EXTENDS Integers, Sequences, FiniteSets, TLC

(* ----------------------------- constants ------------------------------ *)

PAYOUT_CYCLE_SECONDS == 86400

MS_PER_DAY == 86400000

COUNTDOWN_MS == 60000

MAX_CLIENTS == 1000000

LadderLength == 40

\* NIST_URLS.length and NIST_DAYTIME_SERVERS.length
NumHttp == 2

NumDaytime == 5

(* ------------------------------- bounds ------------------------------- *)

\* the clock runs over the days 0..MaxDay
MaxDay == 2

\* the visit ledger is run over the days 0..MaxLedgerDay
MaxLedgerDay == 1

\* identities that visit (client ids 1..NumClients)
NumClients == 2

\* /api/me requests that can be in flight at once
NumRequests == 2

\* how far under the ladder length the payout index starts
MaxBelowCap == 2

\* dailyVisits reads of the cache refresh that can be in flight at once
MaxLoads == 1

\* click events stored in a behaviour
MaxClicks == 1

\* last day of the clock when the whole server runs
MaxFrameDay == 0

\* countdown lengths the clock runs over when the countdown is followed
MaxCountdowns == 2

\* /events connections made in a behaviour
NumSubscribers == 2

\* snapshots pushed to one subscriber in a behaviour
MaxPushes == 3

\* click requests one page sends in a behaviour
MaxPageClicks == 2

\* seconds the browser's clock advances in a behaviour
MaxPageNow == 2

(* ------------------------------ optionals ----------------------------- *)

\* JavaScript null, and a present value
None == <<>>

Some(v) == <<v>>

Val(o) == o[1]

(* ------------------------------- clock -------------------------------- *)

\* instants of a day at which the model samples the clock: a whole second
\* and a fraction of a second
InDayMarks == {1000, 1700}

Times == {d * MS_PER_DAY + m : d \in 0..MaxDay, m \in InDayMarks}

\* JavaScript's % : the remainder takes the sign of the dividend
JsRem(a, b) == IF a >= 0 THEN a % b ELSE -((-a) % b)

\* new Date(ms).toISOString().slice(0, 10): the UTC civil date <<y, m, d>> of
\* the day that holds ms (days before 1970 for a negative ms)
CivilFromDays(z) ==
  LET zz  == z + 719468
      era == zz \div 146097
      doe == zz - era * 146097
      yoe == (doe - (doe \div 1460) + (doe \div 36524) - (doe \div 146096)) \div 365
      doy == doe - (365 * yoe + (yoe \div 4) - (yoe \div 100))
      mp  == (5 * doy + 2) \div 153
      d   == doy - ((153 * mp + 2) \div 5) + 1
      m   == IF mp < 10 THEN mp + 3 ELSE mp - 9
      y   == yoe + era * 400 + (IF m <= 2 THEN 1 ELSE 0)
  IN  <<y, m, d>>

\* variant: the day number rounded towards zero
DateKeyTruncated(ms) ==
  CivilFromDays(IF ms >= 0 THEN ms \div MS_PER_DAY ELSE -((-ms) \div MS_PER_DAY))

DateKey(ms) == CivilFromDays(ms \div MS_PER_DAY)

(* ------------------------------- state -------------------------------- *)

VARIABLES
  now,                    \* Date.now()
  useDb,                  \* db !== null: Firestore is configured
  nistOffsetMs,
  hasNistSync,
  deploymentStartNistMs,  \* legacy; only read as !deploymentStartNistMs: TRUE once set
  visitsDayOffsetMs,      \* the anchor; None until initialised
  metaVisitsDayOffsetMs,  \* meta/visitsDayOffsetMs in Firestore
  syncPc,                 \* where syncNistTime is suspended
  resetPc,                \* where the admin reset handler is suspended
  listening,              \* app.listen was called: requests are served
  visitsDayKeyCache,
  visitsTodayCache,
  pendingLoads,           \* dailyVisits gets of the cache refresh in flight
  memDailyVisits,         \* memoryStore.dailyVisits as pairs <<dayKey, id>>
  fsVisitors,             \* dailyVisits/<dayKey>/visitors/<id> documents
  fsDailyCount,           \* dailyVisits/<dayKey>.count
  requests,               \* the /api/me requests in flight
  credited,               \* history: the credits carried out, <<dayKey, id>>
  firstAnswer,            \* history: <<dayKey, id>> -> the count markVisitToday
                          \* returned to the first call that came back
  lastObservedWindowKey,
  schedulerStarted,
  payoutCycleIndex,
  countdownEndAt,
  metaCountdownEndAt,     \* meta/countdownEndAt in Firestore
  clientCounter,          \* memoryStore.clientCounter, or meta/clientCounter
  clients,                \* token -> id: memoryStore.clients, or clients/<token>
  clickCounts,            \* id -> count
  clickEvents,            \* the click events stored, in order
  clickReqs,              \* the POST /api/click requests in flight
  consentReqs,            \* the POST /api/consent requests in flight
  consentAnswer,          \* the last response of POST /api/consent
  sseClients,             \* the responses of the open /events streams
  conn,                   \* subscriber -> state of its connection
  delivered,              \* subscriber -> snapshots that reached it
  failed,                 \* subscriber -> snapshots whose push failed
  attempt,                \* the source fetchNistTimestamp awaits (0: none)
  stalled,                \* that source took the connection and is silent
  contacted,              \* the sources the last fetch has contacted, in order
  page                    \* the page a browser has loaded, as its script holds it

clockVars == <<now, nistOffsetMs, hasNistSync, deploymentStartNistMs,
               visitsDayOffsetMs, metaVisitsDayOffsetMs, syncPc, resetPc,
               listening>>

cacheVars == <<visitsDayKeyCache, visitsTodayCache, pendingLoads>>

ledgerVars == <<memDailyVisits, fsVisitors, fsDailyCount, requests, credited,
                firstAnswer>>

schedulerVars == <<lastObservedWindowKey, schedulerStarted, payoutCycleIndex>>

appVars == <<countdownEndAt, metaCountdownEndAt, clientCounter, clients,
             clickCounts, clickEvents, clickReqs, consentReqs, consentAnswer>>

subVars == <<sseClients, conn>>

pushVars == <<delivered, failed>>

sseVars == <<subVars, pushVars>>

fetchVars == <<attempt, stalled, contacted>>

\* what the server holds
serverVars == <<useDb, clockVars, cacheVars, ledgerVars, schedulerVars,
                appVars, sseVars, fetchVars>>

vars == <<serverVars, page>>

(* ------------------------- the page in a browser ---------------------- *)
\* The client variant that tracks backend availability. The page is a record
\* of the script's variables and of the parts of the document it writes;
\* every function of the script maps a page to the page it leaves behind.
\* Times are the browser's clock in ms; the server's answers are inputs.

countdownSeconds == 60

clickBoostDuration == 1000

\* the instants the browser's clock is sampled at
PageTimes == {k * 1000 : k \in 0..MaxPageNow}

\* the deadlines a snapshot carries
PageEndsAt == {1000, 2000}

\* before the document is loaded: no script variable exists yet
PageClosed ==
  [loaded           |-> FALSE,
   pageNow          |-> 0,
   hasConsent       |-> FALSE,
   backendOnline    |-> FALSE,
   eventsSource     |-> None,      \* None, or Some("open")
   animationFrame   |-> FALSE,     \* a frame is requested
   lastEndsAt       |-> 0,
   clickBoostEndsAt |-> 0,
   disabled         |-> FALSE,     \* countdownButton.disabled
   isFinished       |-> FALSE,     \* countdownButton has class is-finished
   payoutTimer      |-> None,      \* None: LOADING
   visitsToday      |-> None,      \* None: LOADING
   modalVisible     |-> FALSE,
   startCheck       |-> FALSE,     \* the checkConsent of the start is awaited
   consentPc        |-> "idle",    \* where requestConsent is suspended
   clicksInFlight   |-> 0,         \* POST /api/click requests awaited
   clicksSent       |-> 0,         \* history: click requests sent
   lastSignal       |-> "none"]    \* history: start, error, clickFailed, message

\* formatHms shows floor(max(0, s)) seconds; LOADING when not ready
updatePayoutTimer(p, remainingSeconds, isReady) ==
  [p EXCEPT !.payoutTimer =
     IF ~isReady THEN None
     ELSE Some(IF remainingSeconds < 0 THEN 0 ELSE remainingSeconds)]

updateVisitsToday(p, visitsToday, nistReady) ==
  [p EXCEPT !.visitsToday =
     IF ~nistReady \/ visitsToday = None THEN None ELSE visitsToday]

\* variant: the button is left as it was
setBackendOnlineKeepsButton(p, isOnline) ==
  LET q == [p EXCEPT !.backendOnline = isOnline,
                     !.clickBoostEndsAt = IF isOnline THEN @ ELSE 0]
  IN  IF isOnline THEN q
      ELSE updateVisitsToday(updatePayoutTimer(q, 0, FALSE), None, FALSE)

setBackendOnline(p, isOnline) ==
  LET q == [p EXCEPT !.backendOnline = isOnline,
                     !.disabled = ~isOnline,
                     !.clickBoostEndsAt = IF isOnline THEN @ ELSE 0]
  IN  IF isOnline THEN q
      ELSE updateVisitsToday(updatePayoutTimer(q, 0, FALSE), None, FALSE)

pauseAnimation(p) == [p EXCEPT !.animationFrame = FALSE]

resumeAnimation(p) == [p EXCEPT !.animationFrame = TRUE]

showCookieModal(p) == [p EXCEPT !.modalVisible = TRUE]

hideCookieModal(p) == [p EXCEPT !.modalVisible = FALSE]

setFinishedState(p, isFinished) == [p EXCEPT !.isFinished = isFinished]

\* in ms rather than in seconds, which keeps the fraction
getRemainingSecondsFloat(p) ==
  IF p.lastEndsAt = 0 THEN countdownSeconds * 1000
  ELSE IF p.lastEndsAt - p.pageNow < 0 THEN 0 ELSE p.lastEndsAt - p.pageNow

\* checkConsent once GET /api/me has answered: ok is response.ok
checkConsent(p, ok, hasId, visitsToday) ==
  IF ok /\ hasId
  THEN updateVisitsToday(hideCookieModal([p EXCEPT !.hasConsent = TRUE]),
                         visitsToday, visitsToday # None)
  ELSE updateVisitsToday(showCookieModal(p), None, FALSE)

connectEvents(p) ==
  [pauseAnimation(setBackendOnline(p, FALSE)) EXCEPT !.eventsSource = Some("open")]

\* the start of the script, on a document whose button has or lacks the
\* class is-finished
PageLoad(markedFinished) ==
  /\ ~page.loaded
  /\ page' = [pauseAnimation(setBackendOnline(
                 [PageClosed EXCEPT !.loaded = TRUE,
                                    !.isFinished = markedFinished], FALSE))
              EXCEPT !.startCheck = TRUE, !.lastSignal = "start"]
  /\ UNCHANGED serverVars

\* checkConsent().then(connectEvents)
StartCheckAnswered(ok, hasId, visitsToday) ==
  /\ page.loaded
  /\ page.startCheck
  /\ page' = [connectEvents(checkConsent(page, ok, hasId, visitsToday))
              EXCEPT !.startCheck = FALSE]
  /\ UNCHANGED serverVars

\* requestConsent up to its POST /api/consent
AllowCookies ==
  /\ page.loaded
  /\ page.consentPc = "idle"
  /\ page' = [page EXCEPT !.consentPc = "consent"]
  /\ UNCHANGED serverVars

\* requestConsent goes on to checkConsent only after an ok answer
ConsentAnswered(ok) ==
  /\ page.consentPc = "consent"
  /\ page' = [page EXCEPT !.consentPc = IF ok THEN "recheck" ELSE "idle"]
  /\ UNCHANGED serverVars

RecheckAnswered(ok, hasId, visitsToday) ==
  /\ page.consentPc = "recheck"
  /\ page' = [checkConsent(page, ok, hasId, visitsToday)
              EXCEPT !.consentPc = "idle"]
  /\ UNCHANGED serverVars

\* events.onmessage; data.endsAt || 0 is data.endsAt for the deadlines sent
StreamMessage(data) ==
  /\ page.eventsSource # None
  /\ LET p1 == [setBackendOnline(page, TRUE) EXCEPT !.lastEndsAt = data.endsAt]
         p2 == updateVisitsToday(
                 updatePayoutTimer(p1, data.payoutRemaining, data.nistReady),
                 data.visitsToday, data.nistReady)
         p3 == IF data.remaining > 0 THEN setFinishedState(p2, FALSE) ELSE p2
     IN  page' = [resumeAnimation(p3) EXCEPT !.lastSignal = "message"]
  /\ UNCHANGED serverVars

\* events.onerror: the stream is kept, it reconnects by itself
StreamError ==
  /\ page.eventsSource # None
  /\ page' = [pauseAnimation(setBackendOnline(page, FALSE))
              EXCEPT !.lastSignal = "error"]
  /\ UNCHANGED serverVars

\* the click listener of the countdown button up to its fetch; it is run
\* whatever the button's disabled flag says
ClickButton ==
  /\ page.loaded
  /\ page.clicksSent < MaxPageClicks
  /\ page' = IF ~page.backendOnline THEN page
             ELSE IF ~page.hasConsent THEN showCookieModal(page)
             ELSE IF page.isFinished THEN page
             ELSE [page EXCEPT !.clicksInFlight = @ + 1, !.clicksSent = @ + 1]
  /\ UNCHANGED serverVars

\* the rest of the click listener: ok is resp.ok, a network error is ~ok
ClickAnswered(ok) ==
  /\ page.clicksInFlight > 0
  /\ page' = [(IF ok
               THEN [page EXCEPT !.clickBoostEndsAt = page.pageNow + clickBoostDuration]
               ELSE [pauseAnimation(setBackendOnline(page, FALSE))
                     EXCEPT !.lastSignal = "clickFailed"])
              EXCEPT !.clicksInFlight = @ - 1]
  /\ UNCHANGED serverVars

\* renderFrame, which asks for the next frame
renderFrame ==
  /\ page.animationFrame
  /\ page' = setFinishedState(page, getRemainingSecondsFloat(page) <= 0)
  /\ UNCHANGED serverVars

PageTick ==
  /\ page.loaded
  /\ page.pageNow + 1000 \in PageTimes
  /\ page' = [page EXCEPT !.pageNow = @ + 1000]
  /\ UNCHANGED serverVars

\* the snapshots the stream can carry
PageSnapshots ==
  [endsAt : PageEndsAt, remaining : {0, 1}, nistReady : BOOLEAN,
   payoutRemaining : {5}, visitsToday : {Some(1)}]

PageNext ==
  \/ \E markedFinished \in BOOLEAN : PageLoad(markedFinished)
  \/ \E ok \in BOOLEAN, hasId \in BOOLEAN, visitsToday \in {None, Some(1)} :
        StartCheckAnswered(ok, hasId, visitsToday)
  \/ AllowCookies
  \/ \E ok \in BOOLEAN : ConsentAnswered(ok)
  \/ \E ok \in BOOLEAN, hasId \in BOOLEAN, visitsToday \in {None, Some(1)} :
        RecheckAnswered(ok, hasId, visitsToday)
  \/ \E data \in PageSnapshots : StreamMessage(data)
  \/ StreamError
  \/ ClickButton
  \/ \E ok \in BOOLEAN : ClickAnswered(ok)
  \/ renderFrame
  \/ PageTick

(* --------------------------- window clock ----------------------------- *)

getNistNowMs == now + nistOffsetMs

\* variant: ready as soon as the anchor is there
isNistReadyAnchorOnly == visitsDayOffsetMs # None

isNistReadyForWindow == hasNistSync /\ visitsDayOffsetMs # None

getAdjustedNistNowMs ==
  getNistNowMs - (IF visitsDayOffsetMs = None THEN 0 ELSE Val(visitsDayOffsetMs))

\* variant: a single remainder, negative for a negative adjusted time
SecondsIntoWindowPlain(adjustedSeconds) ==
  JsRem(adjustedSeconds, PAYOUT_CYCLE_SECONDS)

\* ((adjustedSeconds % 86400) + 86400) % 86400
SecondsIntoWindow(adjustedSeconds) ==
  JsRem(JsRem(adjustedSeconds, PAYOUT_CYCLE_SECONDS) + PAYOUT_CYCLE_SECONDS,
        PAYOUT_CYCLE_SECONDS)

getPayoutRemainingSeconds ==
  IF ~isNistReadyForWindow THEN None
  ELSE LET adjustedSeconds == getAdjustedNistNowMs \div 1000
           remaining == PAYOUT_CYCLE_SECONDS - SecondsIntoWindow(adjustedSeconds)
       IN  Some(IF remaining = 0 THEN PAYOUT_CYCLE_SECONDS ELSE remaining)

getNistDayKey ==
  IF ~isNistReadyForWindow THEN None ELSE DateKey(getAdjustedNistNowMs)

\* variant: a single remainder, which keeps the sign of a negative value
normalizeOffsetMsSigned(v) == JsRem(v, MS_PER_DAY)

normalizeOffsetMsNumber(v) ==
  JsRem(JsRem(v, MS_PER_DAY) + MS_PER_DAY, MS_PER_DAY)

\* loadVisitsDayOffsetMs: null when the document is missing, otherwise the
\* stored number normalised
loadVisitsDayOffsetMs(stored) ==
  IF stored = None THEN None ELSE Some(normalizeOffsetMsNumber(Val(stored)))

\* variant: the oracle clock taken as the anchor without the remainder
AnchorFromNistNowUnwrapped(nistNow) == nistNow

\* the anchor taken from the oracle clock: now % 86400000
AnchorFromNistNow(nistNow) == JsRem(nistNow, MS_PER_DAY)

\* variant: every sync initialises the anchor
AnchorAlwaysMissing(anchor) == TRUE

\* syncNistTime initialises the anchor only while it is null
AnchorMissing(anchor) == anchor = None

(* ------------------------------ oracle -------------------------------- *)

\* What fetchNistTimestamp can resolve to at local time t: the "time" field of
\* an HTTP source (milliseconds), or a daytime line, which parseNistDaytime
\* reads to the whole second.
HttpTimestamp(t) == t

DaytimeTimestamp(t) == (t \div 1000) * 1000

OracleTimestamps(t) == {HttpTimestamp(t), DaytimeTimestamp(t)}

(* ---------------------------- visits cache ---------------------------- *)

MemCount(dayKey) == Cardinality({p \in memDailyVisits : p[1] = dayKey})

FsCount(dayKey) ==
  IF dayKey \in DOMAIN fsDailyCount THEN fsDailyCount[dayKey] ELSE 0

\* db.collection("dailyVisits").doc(dayKey).get(): a get beyond MaxLoads in
\* flight is one that fails at once (.catch(() => {}))
StartLoad(dayKey) ==
  IF Cardinality(pendingLoads) < MaxLoads
  THEN pendingLoads \cup {[key |-> dayKey, count |-> None]}
  ELSE pendingLoads

\* variant: with Firestore the count stays null while the window is loaded
RefreshVisitsTodayCacheLoading(kc, tc) ==
  LET dayKey == getNistDayKey'
  IN  IF ~isNistReadyForWindow' \/ dayKey = None
      THEN /\ visitsDayKeyCache' = None
           /\ visitsTodayCache' = None
           /\ UNCHANGED pendingLoads
      ELSE IF kc = dayKey /\ tc # None
      THEN /\ visitsDayKeyCache' = kc
           /\ visitsTodayCache' = tc
           /\ UNCHANGED pendingLoads
      ELSE /\ visitsDayKeyCache' = dayKey
           /\ IF ~useDb
              THEN /\ visitsTodayCache' = Some(MemCount(dayKey))
                   /\ UNCHANGED pendingLoads
              ELSE /\ visitsTodayCache' = None
                   /\ pendingLoads' = StartLoad(dayKey)

\* refreshVisitsTodayCacheIfNeeded, called with the caches holding kc and tc,
\* in the state the enclosing step leaves the clock in
RefreshVisitsTodayCacheIfNeeded(kc, tc) ==
  LET dayKey == getNistDayKey'
  IN  IF ~isNistReadyForWindow' \/ dayKey = None
      THEN /\ visitsDayKeyCache' = None
           /\ visitsTodayCache' = None
           /\ UNCHANGED pendingLoads
      ELSE IF kc = dayKey /\ tc # None
      THEN /\ visitsDayKeyCache' = kc
           /\ visitsTodayCache' = tc
           /\ UNCHANGED pendingLoads
      ELSE /\ visitsDayKeyCache' = dayKey
           /\ IF ~useDb
              THEN /\ visitsTodayCache' = Some(MemCount(dayKey))
                   /\ UNCHANGED pendingLoads
              ELSE /\ visitsTodayCache' = Some(0)
                   /\ pendingLoads' = StartLoad(dayKey)

\* the /events connections of a behaviour
Subscribers == 1..NumSubscribers

\* res.write(payload) for every res of sseClients: a write to a connection
\* that broke returns without throwing and delivers nothing; the loop goes on
PushToSubscribers ==
  /\ delivered' = [s \in Subscribers |->
                    IF s \in sseClients /\ conn[s] = "open"
                    THEN delivered[s] + 1 ELSE delivered[s]]
  /\ failed' = [s \in Subscribers |->
                 IF s \in sseClients /\ conn[s] = "broken"
                 THEN failed[s] + 1 ELSE failed[s]]

\* broadcastCountdown(), called with the caches holding kc and tc
broadcastCountdown(kc, tc) ==
  /\ RefreshVisitsTodayCacheIfNeeded(kc, tc)
  /\ PushToSubscribers

\* variant: the tick waits until no refresh is under way
BroadcastCountdownAfterSync ==
  /\ syncPc \in {"idle", "off"}
  /\ UNCHANGED <<useDb, page, clockVars, ledgerVars, schedulerVars, subVars, fetchVars, appVars>>
  /\ broadcastCountdown(visitsDayKeyCache, visitsTodayCache)

\* the 1 Hz tick: setInterval(broadcastCountdown, 1000)
BroadcastCountdown ==
  /\ UNCHANGED <<useDb, page, clockVars, ledgerVars, schedulerVars, subVars, fetchVars, appVars>>
  /\ broadcastCountdown(visitsDayKeyCache, visitsTodayCache)

\* variant: the subscription writes no initial snapshot
SubscribeSilent(s) ==
  /\ listening
  /\ conn[s] = "none"
  /\ UNCHANGED <<useDb, page, clockVars, ledgerVars, schedulerVars, appVars, fetchVars, pushVars>>
  /\ sseClients' = sseClients \cup {s}
  /\ conn' = [conn EXCEPT ![s] = "open"]
  /\ RefreshVisitsTodayCacheIfNeeded(visitsDayKeyCache, visitsTodayCache)

\* GET /events: the response joins sseClients, the cache is refreshed, the
\* initial snapshot is written and the close handler registered, in one turn
Subscribe(s) ==
  /\ listening
  /\ conn[s] = "none"
  /\ UNCHANGED <<useDb, page, clockVars, ledgerVars, schedulerVars, appVars, fetchVars, failed>>
  /\ sseClients' = sseClients \cup {s}
  /\ conn' = [conn EXCEPT ![s] = "open"]
  /\ RefreshVisitsTodayCacheIfNeeded(visitsDayKeyCache, visitsTodayCache)
  /\ delivered' = [delivered EXCEPT ![s] = @ + 1]

\* the connection of a subscriber fails (the peer is gone or stalled, the
\* network is cut): writes to it no longer arrive; "close" has not been
\* emitted yet
ConnectionBreaks(s) ==
  /\ conn[s] = "open"
  /\ conn' = [conn EXCEPT ![s] = "broken"]
  /\ UNCHANGED <<useDb, page, clockVars, cacheVars, ledgerVars, schedulerVars, appVars, fetchVars,
                 sseClients, pushVars>>

\* req.on("close", ...): the only place a response leaves sseClients
SubscriberClose(s) ==
  /\ conn[s] \in {"open", "broken"}
  /\ conn' = [conn EXCEPT ![s] = "closed"]
  /\ sseClients' = sseClients \ {s}
  /\ UNCHANGED <<useDb, page, clockVars, cacheVars, ledgerVars, schedulerVars, appVars, fetchVars,
                 pushVars>>

\* the get of a refresh reads dailyVisits/<dayKey> at the server
LoadRead(l) ==
  /\ l \in pendingLoads
  /\ l.count = None
  /\ pendingLoads' = (pendingLoads \ {l}) \cup {[l EXCEPT !.count = Some(FsCount(l.key))]}
  /\ UNCHANGED <<useDb, page, clockVars, visitsDayKeyCache, visitsTodayCache, ledgerVars,
                 schedulerVars, sseVars, fetchVars, appVars>>

\* .then((doc) => { visitsTodayCache = ... })
LoadResolve(l) ==
  /\ l \in pendingLoads
  /\ l.count # None
  /\ visitsTodayCache' = l.count
  /\ pendingLoads' = pendingLoads \ {l}
  /\ UNCHANGED <<useDb, page, clockVars, visitsDayKeyCache, ledgerVars, schedulerVars, sseVars, fetchVars, appVars>>

\* .catch(() => {})
LoadFail(l) ==
  /\ l \in pendingLoads
  /\ pendingLoads' = pendingLoads \ {l}
  /\ UNCHANGED <<useDb, page, clockVars, visitsDayKeyCache, visitsTodayCache, ledgerVars,
                 schedulerVars, sseVars, fetchVars, appVars>>

(* ------------------------------- clock -------------------------------- *)

\* the local clock moves on
Advance(t) ==
  /\ t > now
  /\ now' = t
  /\ UNCHANGED <<useDb, page, nistOffsetMs, hasNistSync, deploymentStartNistMs,
                 visitsDayOffsetMs, metaVisitsDayOffsetMs, syncPc, resetPc,
                 listening, cacheVars, ledgerVars, schedulerVars, sseVars, fetchVars, appVars>>

(* ---------------------------- syncNistTime ---------------------------- *)

\* persistVisitsDayOffsetMs: the write is issued with the value of the anchor
\* at the call; a failed write is caught and logged by its callers
PersistVisitsDayOffsetMs ==
  \E ok \in BOOLEAN :
    metaVisitsDayOffsetMs' =
      IF ok THEN Some(normalizeOffsetMsNumber(Val(visitsDayOffsetMs')))
      ELSE metaVisitsDayOffsetMs

\* lines 581-599: from hasNistSync = true on
SyncAfterDeploymentStart ==
  /\ hasNistSync' = TRUE
  /\ IF AnchorMissing(visitsDayOffsetMs)
     THEN /\ visitsDayOffsetMs' = Some(AnchorFromNistNow(getNistNowMs'))
          /\ IF useDb
             THEN /\ PersistVisitsDayOffsetMs
                  /\ syncPc' = "persistVisitsDayOffset"
                  /\ UNCHANGED <<listening, cacheVars, pushVars>>
             ELSE /\ UNCHANGED metaVisitsDayOffsetMs
                  /\ syncPc' = "idle"
                  /\ listening' = TRUE
                  /\ broadcastCountdown(None, Some(0))
     ELSE /\ syncPc' = "idle"
          /\ listening' = TRUE
          /\ UNCHANGED <<visitsDayOffsetMs, metaVisitsDayOffsetMs, cacheVars,
                         pushVars>>

\* initialize with Firestore: Promise.all of the loads rejects, so that the
\* catch of initialize() starts listening; syncNistTime was not called and its
\* interval was not set (syncPc "off": no refresh is scheduled)
StartupLoadFailed ==
  /\ useDb
  /\ ~listening
  /\ syncPc = "idle"
  /\ syncPc' = "off"
  /\ listening' = TRUE
  /\ UNCHANGED <<useDb, page, now, nistOffsetMs, hasNistSync, deploymentStartNistMs,
                 visitsDayOffsetMs, metaVisitsDayOffsetMs, resetPc, cacheVars,
                 ledgerVars, schedulerVars, sseVars, fetchVars, appVars>>

\* fetchNistTimestamp has returned or thrown: no attempt is pending
FetchOver ==
  /\ attempt' = 0
  /\ stalled' = FALSE

\* the interval (and initialize) calls syncNistTime, which awaits the fetch
SyncStart ==
  /\ syncPc = "idle"
  /\ syncPc' = "fetch"
  /\ UNCHANGED <<useDb, page, now, nistOffsetMs, hasNistSync, deploymentStartNistMs,
                 visitsDayOffsetMs, metaVisitsDayOffsetMs, resetPc, listening, cacheVars,
                 ledgerVars, schedulerVars, sseVars, fetchVars, appVars>>

\* variant: a failed refresh clears the ever-synced flag
SyncFetchFailedForgets ==
  /\ syncPc = "fetch"
  /\ FetchOver
  /\ syncPc' = "idle"
  /\ hasNistSync' = FALSE
  /\ UNCHANGED <<useDb, page, now, nistOffsetMs, deploymentStartNistMs,
                 visitsDayOffsetMs, metaVisitsDayOffsetMs, resetPc, cacheVars,
                 ledgerVars, schedulerVars, sseVars, contacted, appVars>>
  /\ listening' = TRUE

\* variant: a failed eager refresh keeps the server from listening
SyncFetchFailedBlocks ==
  /\ syncPc = "fetch"
  /\ FetchOver
  /\ syncPc' = "idle"
  /\ UNCHANGED <<useDb, page, now, nistOffsetMs, hasNistSync, deploymentStartNistMs,
                 visitsDayOffsetMs, metaVisitsDayOffsetMs, resetPc, listening,
                 cacheVars, ledgerVars, schedulerVars, sseVars, contacted, appVars>>

\* every source failed: fetchNistTimestamp throws, the catch logs
SyncFetchFailed ==
  /\ syncPc = "fetch"
  /\ FetchOver
  /\ syncPc' = "idle"
  /\ UNCHANGED <<useDb, page, now, nistOffsetMs, hasNistSync, deploymentStartNistMs,
                 visitsDayOffsetMs, metaVisitsDayOffsetMs, resetPc, cacheVars,
                 ledgerVars, schedulerVars, sseVars, contacted, appVars>>
  /\ listening' = TRUE

\* the sources in the order of the two loops: the HTTP endpoints, then the
\* daytime hosts
NumSources == NumHttp + NumDaytime

IsHttp(source) == source <= NumHttp

\* what a source that answers at local time t yields once parsed
SourceTimestamps(source, t) ==
  IF IsHttp(source) THEN {HttpTimestamp(t)} ELSE {DaytimeTimestamp(t)}

\* how an attempt that gets a response or an error fails: the connection
\* fails (fetch throws, socket "error"), the response is not OK (HTTP), or
\* its body does not parse
FailReasons(source) ==
  IF IsHttp(source) THEN {"down", "status", "parse"} ELSE {"down", "parse"}

\* fetchNistTimestamp is entered: the first HTTP endpoint is fetched
AttemptBegin ==
  /\ syncPc = "fetch"
  /\ attempt = 0
  /\ attempt' = 1
  /\ stalled' = FALSE
  /\ contacted' = <<1>>
  /\ UNCHANGED <<useDb, page, clockVars, cacheVars, ledgerVars, schedulerVars, appVars,
                 sseVars>>

\* the source of the attempt has taken the connection and sends nothing
AttemptStalls ==
  /\ attempt >= 1
  /\ ~stalled
  /\ stalled' = TRUE
  /\ UNCHANGED <<useDb, page, clockVars, cacheVars, ledgerVars, schedulerVars, appVars,
                 sseVars, attempt, contacted>>

\* the attempt is over without a timestamp: errors.push and the next source
\* of the loops, or after the last daytime host the throw of
\* fetchNistTimestamp
AttemptOver ==
  IF attempt < NumSources
  THEN /\ attempt' = attempt + 1
       /\ stalled' = FALSE
       /\ contacted' = Append(contacted, attempt + 1)
       /\ UNCHANGED <<useDb, page, clockVars, cacheVars, ledgerVars, schedulerVars,
                      appVars, sseVars>>
  ELSE SyncFetchFailed

\* variant: a body that does not parse ends the fetch as failed
AttemptFailsParseEnds(reason) ==
  /\ attempt >= 1
  /\ ~stalled
  /\ reason \in FailReasons(attempt)
  /\ IF reason = "parse" THEN SyncFetchFailed ELSE AttemptOver

\* the attempt fails with a response or an error
AttemptFails(reason) ==
  /\ attempt >= 1
  /\ ~stalled
  /\ reason \in FailReasons(attempt)
  /\ AttemptOver

\* the 5 s timer of a daytime attempt fires: socket.destroy(), reject
AttemptTimesOut ==
  /\ attempt >= 1
  /\ ~IsHttp(attempt)
  /\ stalled
  /\ AttemptOver

\* an HTTP attempt that got no response is ended by the runtime, if the
\* runtime does that: the call of fetch sets no timeout and no signal
AttemptAbortedByRuntime ==
  /\ attempt >= 1
  /\ IsHttp(attempt)
  /\ stalled
  /\ AttemptOver

\* a source answered nistMs (a source answering 0 counts as a parse failure)
SyncFetched(nistMs) ==
  /\ syncPc = "fetch"
  /\ FetchOver
  /\ nistMs \in OracleTimestamps(now)
  /\ nistMs # 0
  /\ UNCHANGED <<useDb, page, now, resetPc, ledgerVars, schedulerVars, subVars, contacted, appVars>>
  /\ nistOffsetMs' = nistMs - now
  /\ IF ~deploymentStartNistMs
     THEN /\ deploymentStartNistMs' = TRUE
          /\ IF useDb
             THEN /\ syncPc' = "persistDeploymentStart"
                  /\ UNCHANGED <<hasNistSync, visitsDayOffsetMs,
                                 metaVisitsDayOffsetMs, listening, cacheVars,
                                 pushVars>>
             ELSE SyncAfterDeploymentStart
     ELSE /\ UNCHANGED deploymentStartNistMs
          /\ SyncAfterDeploymentStart

\* await persistDeploymentStart(...) returned
SyncDeploymentStartPersisted ==
  /\ syncPc = "persistDeploymentStart"
  /\ UNCHANGED <<useDb, page, now, nistOffsetMs, deploymentStartNistMs, resetPc,
                 ledgerVars, schedulerVars, subVars, fetchVars, appVars>>
  /\ SyncAfterDeploymentStart

\* await persistDeploymentStart(...) threw: the outer catch ends the sync
SyncDeploymentStartPersistFailed ==
  /\ syncPc = "persistDeploymentStart"
  /\ syncPc' = "idle"
  /\ UNCHANGED <<useDb, page, now, nistOffsetMs, hasNistSync, deploymentStartNistMs,
                 visitsDayOffsetMs, metaVisitsDayOffsetMs, resetPc, cacheVars,
                 ledgerVars, schedulerVars, sseVars, fetchVars, appVars>>
  /\ listening' = TRUE

\* the try/catch around persistVisitsDayOffsetMs is left: lines 595-598
SyncAnchorPersisted ==
  /\ syncPc = "persistVisitsDayOffset"
  /\ syncPc' = "idle"
  /\ listening' = TRUE
  /\ UNCHANGED <<useDb, page, now, nistOffsetMs, hasNistSync, deploymentStartNistMs,
                 visitsDayOffsetMs, metaVisitsDayOffsetMs, resetPc, ledgerVars,
                 schedulerVars, subVars, fetchVars, appVars>>
  /\ broadcastCountdown(None, Some(0))

(* ----------------------------- admin reset ---------------------------- *)

RESET_PAYOUT_TOKEN == "secret"

\* process.env.RESET_PAYOUT_TOKEN as a request finds it: unset, empty or set
ResetSecrets == {None, Some(""), Some(RESET_PAYOUT_TOKEN)}

\* req.headers["x-reset-token"]: missing, empty, the secret or another value
ResetHeaders == {None, Some(""), Some(RESET_PAYOUT_TOKEN), Some("guess")}

\* variant: the header is compared without the test that a secret is set
requireResetTokenHeaderOnly(secret, header) == header = secret

\* token && req.headers["x-reset-token"] === token
requireResetToken(secret, header) ==
  /\ secret # None
  /\ secret # Some("")
  /\ header = secret

\* the status the reset handlers answer with
ResetStatus(secret, header) ==
  IF ~requireResetToken(secret, header) THEN 403
  ELSE IF ~hasNistSync THEN 400
  ELSE 200

\* variant: an accepted reset restarts the countdown too
AdminResetRestartsCountdown(secret, header) ==
  /\ listening
  /\ resetPc = "idle"
  /\ UNCHANGED <<useDb, page, now, nistOffsetMs, hasNistSync, deploymentStartNistMs,
                 syncPc, listening, ledgerVars, schedulerVars, subVars, fetchVars,
                 metaCountdownEndAt, clientCounter, clients, clickCounts,
                 clickEvents, clickReqs, consentReqs, consentAnswer>>
  /\ IF ResetStatus(secret, header) # 200
     THEN UNCHANGED <<visitsDayOffsetMs, metaVisitsDayOffsetMs, resetPc,
                      cacheVars, pushVars, countdownEndAt>>
     ELSE /\ visitsDayOffsetMs' = Some(AnchorFromNistNow(getNistNowMs))
          /\ countdownEndAt' = now + COUNTDOWN_MS
          /\ IF useDb
             THEN /\ PersistVisitsDayOffsetMs
                  /\ resetPc' = "persist"
                  /\ UNCHANGED <<cacheVars, pushVars>>
             ELSE /\ UNCHANGED <<metaVisitsDayOffsetMs, resetPc>>
                  /\ broadcastCountdown(None, Some(0))

\* POST /api/visits/reset and POST /api/payout/reset (the same body)
AdminReset(secret, header) ==
  /\ listening
  /\ resetPc = "idle"
  /\ UNCHANGED <<useDb, page, now, nistOffsetMs, hasNistSync, deploymentStartNistMs,
                 syncPc, listening, ledgerVars, schedulerVars, subVars, fetchVars, appVars>>
  /\ IF ResetStatus(secret, header) # 200
     THEN UNCHANGED <<visitsDayOffsetMs, metaVisitsDayOffsetMs, resetPc,
                      cacheVars, pushVars>>
     ELSE /\ visitsDayOffsetMs' = Some(AnchorFromNistNow(getNistNowMs))
          /\ IF useDb
             THEN /\ PersistVisitsDayOffsetMs
                  /\ resetPc' = "persist"
                  /\ UNCHANGED <<cacheVars, pushVars>>
             ELSE /\ UNCHANGED <<metaVisitsDayOffsetMs, resetPc>>
                  /\ broadcastCountdown(None, Some(0))

AdminResetPersisted ==
  /\ resetPc = "persist"
  /\ resetPc' = "idle"
  /\ UNCHANGED <<useDb, page, now, nistOffsetMs, hasNistSync, deploymentStartNistMs,
                 visitsDayOffsetMs, metaVisitsDayOffsetMs, syncPc, listening,
                 ledgerVars, schedulerVars, subVars, fetchVars, appVars>>
  /\ broadcastCountdown(None, Some(0))

(* --------------------------- cycle scheduler -------------------------- *)

\* variant: an advance that does not saturate
AdvanceIndexUncapped(index) == index + 1

\* the index advanced by 1, saturating at the ladder length
AdvanceIndex(index) == IF index < LadderLength THEN index + 1 ELSE index

\* variant: every tick counts as a transition
KeyTransitionAlways(last, key) == TRUE

\* the key differs from the last observed one and both are non-null
KeyTransition(last, key) == key # last /\ key # None /\ last # None

\* variant: the first tick advances too
TickAdvancesAtBoot(started, last, key) == key # last

\* a tick advances the index on a key transition, never the first tick
TickAdvances(started, last, key) == started /\ KeyTransition(last, key)

\* one tick of the scheduler: the first only records the key
CycleSchedulerTick ==
  LET key == getNistDayKey
  IN  /\ schedulerStarted' = TRUE
      /\ lastObservedWindowKey' = key
      /\ payoutCycleIndex' =
           IF TickAdvances(schedulerStarted, lastObservedWindowKey, key)
           THEN AdvanceIndex(payoutCycleIndex)
           ELSE payoutCycleIndex
      /\ UNCHANGED <<useDb, page, clockVars, cacheVars, ledgerVars, appVars, sseVars, fetchVars>>

(* ---------------------------- visit ledger ---------------------------- *)

Clients == 1..NumClients

\* the browser tokens (cookies): as many as identities
Tokens == 1..NumClients

\* the ids getClientId finds for some token
RegisteredIds == {clients[t] : t \in DOMAIN clients}

Requests == 1..NumRequests

IdleRequest == [pc |-> "idle", id |-> 0, dayKey |-> None, newCount |-> 0]

\* variant: the visitor document looked up under the other days
VisitorExistsOtherDay(dayKey, clientId) ==
  \E p \in fsVisitors : p[2] = clientId /\ p[1] # dayKey

\* transaction.get(visitorRef): is there a visitor document of this identity
\* under this day
VisitorExists(dayKey, clientId) == <<dayKey, clientId>> \in fsVisitors

\* variant: the transaction writes whether or not the visitor exists
TxNeverSkips(visitorExists) == FALSE

\* if (visitorSnap.exists) return currentCount;
TxSkipsWrite(visitorExists) == visitorExists

\* set.add(String(clientId))
SetAdd(set, dayKey, clientId) == set \cup {<<dayKey, clientId>>}

\* the history of first answers once markVisitToday has returned count for
\* clientId under dayKey
FirstAnswered(dayKey, clientId, count) ==
  IF <<dayKey, clientId>> \in DOMAIN firstAnswer
  THEN firstAnswer
  ELSE [p \in DOMAIN firstAnswer \cup {<<dayKey, clientId>>} |->
          IF p = <<dayKey, clientId>> THEN count ELSE firstAnswer[p]]

\* GET /api/me of a registered identity with the in-memory store: no await
\* suspends between the readiness check and the response
MeMemory(clientId) ==
  /\ ~useDb
  /\ listening
  /\ clientId \in RegisteredIds
  /\ isNistReadyForWindow
  /\ LET dayKey == getNistDayKey
     IN  /\ memDailyVisits' = SetAdd(memDailyVisits, dayKey, clientId)
         /\ visitsDayKeyCache' = dayKey
         /\ visitsTodayCache' =
              Some(Cardinality({p \in memDailyVisits' : p[1] = dayKey}))
         /\ credited' = credited \cup {<<dayKey, clientId>>}
         /\ firstAnswer' = FirstAnswered(dayKey, clientId, Val(visitsTodayCache'))
  /\ UNCHANGED <<useDb, page, clockVars, pendingLoads, fsVisitors, fsDailyCount,
                 requests, schedulerVars, sseVars, fetchVars, appVars>>

\* GET /api/me with Firestore, up to the await of db.runTransaction
MeStart(r, clientId) ==
  /\ useDb
  /\ listening
  /\ clientId \in RegisteredIds
  /\ isNistReadyForWindow
  /\ requests[r].pc = "idle"
  /\ LET dayKey == getNistDayKey
     IN  /\ visitsDayKeyCache' = dayKey
         /\ visitsTodayCache' =
              IF visitsDayKeyCache # dayKey THEN Some(0) ELSE visitsTodayCache
         /\ requests' = [requests EXCEPT
              ![r] = [pc |-> "tx", id |-> clientId, dayKey |-> dayKey, newCount |-> 0]]
  /\ UNCHANGED <<useDb, page, clockVars, pendingLoads, memDailyVisits, fsVisitors,
                 fsDailyCount, credited, firstAnswer, schedulerVars, sseVars,
                 fetchVars, appVars>>

\* the transaction commits: its reads and writes are one atomic step
TxCommit(r) ==
  /\ requests[r].pc = "tx"
  /\ LET dayKey == requests[r].dayKey
         clientId == requests[r].id
         currentCount == FsCount(dayKey)
         nextCount == currentCount + 1
     IN  /\ IF TxSkipsWrite(VisitorExists(dayKey, clientId))
            THEN /\ requests' = [requests EXCEPT ![r].pc = "resume",
                                                 ![r].newCount = currentCount]
                 /\ UNCHANGED <<fsVisitors, fsDailyCount>>
            ELSE /\ requests' = [requests EXCEPT ![r].pc = "resume",
                                                 ![r].newCount = nextCount]
                 /\ fsVisitors' = fsVisitors \cup {<<dayKey, clientId>>}
                 /\ fsDailyCount' =
                      [k \in DOMAIN fsDailyCount \cup {dayKey} |->
                         IF k = dayKey THEN nextCount ELSE fsDailyCount[k]]
         /\ credited' = credited \cup {<<dayKey, clientId>>}
  /\ UNCHANGED <<useDb, page, clockVars, cacheVars, memDailyVisits, firstAnswer,
                 schedulerVars, sseVars, fetchVars, appVars>>

\* markVisitToday resumes after the transaction and /api/me answers
MeResume(r) ==
  /\ requests[r].pc = "resume"
  /\ visitsTodayCache' = Some(requests[r].newCount)
  /\ firstAnswer' = FirstAnswered(requests[r].dayKey, requests[r].id,
                                  requests[r].newCount)
  /\ requests' = [requests EXCEPT ![r] = IdleRequest]
  /\ UNCHANGED <<useDb, page, clockVars, visitsDayKeyCache, pendingLoads,
                 memDailyVisits, fsVisitors, fsDailyCount, credited, schedulerVars, sseVars, fetchVars, appVars>>

(* --------------------------- specification ---------------------------- *)

(* ---------------------- identities and countdown ----------------------- *)

\* a POST /api/click request that is not in flight
IdleClick == [pc |-> "idle", token |-> 0, id |-> 0, timestamp |-> 0]

\* a POST /api/consent request that is not in flight
IdleConsent == [pc |-> "idle", token |-> 0]

\* no POST /api/consent was answered yet
NoAnswer == [token |-> 0, status |-> 0, id |-> 0, cookie |-> FALSE]

\* variant: the cookie is set before the result of assignClientId is tested
ConsentResponseCookieFirst(token, id) ==
  IF id # 0
  THEN [token |-> token, status |-> 200, id |-> id, cookie |-> TRUE]
  ELSE [token |-> token, status |-> 403, id |-> 0, cookie |-> TRUE]

\* the response of POST /api/consent for token, id being the existing id or
\* what assignClientId returned (0 stands for null): 200 with the id and the
\* cookie set, or 403 MAX_CLIENTS_REACHED without a cookie
ConsentResponse(token, id) ==
  IF id # 0
  THEN [token |-> token, status |-> 200, id |-> id, cookie |-> TRUE]
  ELSE [token |-> token, status |-> 403, id |-> 0, cookie |-> FALSE]

\* variant: Math.floor(a / b)
FloorDiv(a, b) == a \div b

\* Math.ceil(a / b) for b > 0
CeilDiv(a, b) == -((-a) \div b)

\* variant: the rounded difference without Math.max(0, ...)
getRemainingSecondsUnclamped == CeilDiv(countdownEndAt - now, 1000)

\* normalizeMsNumber: a stored number counts only when it is above 0
normalizeMsNumber(v) == IF v <= 0 THEN None ELSE Some(v)

\* what loadCountdownEndAt leaves in countdownEndAt at local time t: the
\* stored deadline, or t + 60 s when the document is missing or invalid
loadCountdownEndAt(stored, t) ==
  LET value == IF stored = None THEN None ELSE normalizeMsNumber(Val(stored))
  IN  IF value # None THEN Val(value) ELSE t + COUNTDOWN_MS

getRemainingSeconds ==
  LET remainingMs == countdownEndAt - now
      ceil == CeilDiv(remainingMs, 1000)
  IN  IF ceil > 0 THEN ceil ELSE 0

\* getClientId: 0 stands for null (the handlers test !id)
getClientId(token) == IF token \in DOMAIN clients THEN clients[token] ELSE 0

\* the click events stored or about to be stored
ClicksUnderWay ==
  Len(clickEvents) + Cardinality({r \in Requests : clickReqs[r].pc # "idle"})

\* what assignClientId returns: the next id, or 0 for null at the cap
AssignedId == IF clientCounter >= MAX_CLIENTS THEN 0 ELSE clientCounter + 1

\* variant: assignClientId without the test of the cap
AssignClientIdUncapped(token) ==
  LET next == clientCounter + 1
  IN  /\ clientCounter' = next
      /\ clients' = [t \in DOMAIN clients \cup {token} |->
                       IF t = token THEN next ELSE clients[t]]
      /\ clickCounts' = [c \in DOMAIN clickCounts \cup {next} |->
                           IF c = next THEN 0 ELSE clickCounts[c]]

\* assignClientId: the counter, the token's id and the id's click count
AssignClientId(token) ==
  IF clientCounter >= MAX_CLIENTS
  THEN UNCHANGED <<clientCounter, clients, clickCounts>>
  ELSE LET next == clientCounter + 1
       IN  /\ clientCounter' = next
           /\ clients' = [t \in DOMAIN clients \cup {token} |->
                            IF t = token THEN next ELSE clients[t]]
           /\ clickCounts' = [c \in DOMAIN clickCounts \cup {next} |->
                                IF c = next THEN 0 ELSE clickCounts[c]]

\* the click's write: the event, and the id's count incremented
StoreClick(id, timestamp) ==
  /\ clickEvents' = Append(clickEvents, [id |-> id, timestamp |-> timestamp])
  /\ clickCounts' = [c \in DOMAIN clickCounts \cup {id} |->
                       IF c = id
                       THEN (IF c \in DOMAIN clickCounts THEN clickCounts[c] ELSE 0) + 1
                       ELSE clickCounts[c]]

\* POST /api/consent without Firestore: an existing id is answered,
\* otherwise assignClientId is called and its result answered
ConsentMemory(token) ==
  /\ ~useDb
  /\ listening
  /\ IF getClientId(token) # 0
     THEN /\ UNCHANGED <<clientCounter, clients, clickCounts>>
          /\ consentAnswer' = ConsentResponse(token, getClientId(token))
     ELSE /\ AssignClientId(token)
          /\ consentAnswer' = ConsentResponse(token, AssignedId)
  /\ UNCHANGED <<useDb, page, clockVars, cacheVars, ledgerVars, schedulerVars, sseVars, fetchVars,
                 countdownEndAt, metaCountdownEndAt, clickEvents, clickReqs, consentReqs>>

\* POST /api/consent with Firestore, up to await getClientId(token)
ConsentStart(r, token) ==
  /\ useDb
  /\ listening
  /\ consentReqs[r].pc = "idle"
  /\ consentReqs' = [consentReqs EXCEPT ![r] = [pc |-> "lookup", token |-> token]]
  /\ UNCHANGED <<useDb, page, clockVars, cacheVars, ledgerVars, schedulerVars, consentAnswer, sseVars, fetchVars,
                 countdownEndAt, metaCountdownEndAt, clientCounter, clients,
                 clickCounts, clickEvents, clickReqs>>

\* getClientId answered: an existing id is returned, otherwise assignClientId
\* is awaited
ConsentLookedUp(r) ==
  /\ consentReqs[r].pc = "lookup"
  /\ consentReqs' = [consentReqs EXCEPT ![r] =
                       IF getClientId(consentReqs[r].token) # 0
                       THEN IdleConsent
                       ELSE [@ EXCEPT !.pc = "assign"]]
  /\ consentAnswer' =
       IF getClientId(consentReqs[r].token) # 0
       THEN ConsentResponse(consentReqs[r].token, getClientId(consentReqs[r].token))
       ELSE consentAnswer
  /\ UNCHANGED <<useDb, page, clockVars, cacheVars, ledgerVars, schedulerVars, sseVars, fetchVars,
                 countdownEndAt, metaCountdownEndAt, clientCounter, clients,
                 clickCounts, clickEvents, clickReqs>>

\* the transaction of assignClientId commits and the handler answers
ConsentAssigned(r) ==
  /\ consentReqs[r].pc = "assign"
  /\ AssignClientId(consentReqs[r].token)
  /\ consentAnswer' = ConsentResponse(consentReqs[r].token, AssignedId)
  /\ consentReqs' = [consentReqs EXCEPT ![r] = IdleConsent]
  /\ UNCHANGED <<useDb, page, clockVars, cacheVars, ledgerVars, schedulerVars, sseVars, fetchVars,
                 countdownEndAt, metaCountdownEndAt, clickEvents, clickReqs>>

\* POST /api/click without Firestore, by a registered token while the
\* countdown runs (otherwise the handler answers and changes nothing)
ClickMemory(token) ==
  /\ ~useDb
  /\ listening
  /\ ClicksUnderWay < MaxClicks
  /\ getClientId(token) # 0
  /\ getRemainingSeconds # 0
  /\ countdownEndAt' = now + COUNTDOWN_MS
  /\ UNCHANGED <<useDb, page, clockVars, ledgerVars, schedulerVars, consentAnswer, subVars, fetchVars, metaCountdownEndAt,
                 clientCounter, clients, clickReqs, consentReqs>>
  /\ broadcastCountdown(visitsDayKeyCache, visitsTodayCache)
  /\ StoreClick(getClientId(token), now)

\* POST /api/click with Firestore, up to await getClientId(token)
ClickStart(r, token) ==
  /\ useDb
  /\ listening
  /\ ClicksUnderWay < MaxClicks
  /\ clickReqs[r].pc = "idle"
  /\ clickReqs' = [clickReqs EXCEPT ![r] = [IdleClick EXCEPT !.pc = "lookup", !.token = token]]
  /\ UNCHANGED <<useDb, page, clockVars, cacheVars, ledgerVars, schedulerVars, consentAnswer, sseVars, fetchVars,
                 countdownEndAt, metaCountdownEndAt, clientCounter, clients,
                 clickCounts, clickEvents, consentReqs>>

\* getClientId answered: the deadline is reset and its write issued (the
\* write may fail, which is logged)
ClickLookedUp(r) ==
  /\ clickReqs[r].pc = "lookup"
  /\ LET id == getClientId(clickReqs[r].token)
     IN  IF id = 0 \/ getRemainingSeconds = 0
         THEN /\ clickReqs' = [clickReqs EXCEPT ![r] = IdleClick]
              /\ UNCHANGED <<countdownEndAt, metaCountdownEndAt>>
         ELSE /\ countdownEndAt' = now + COUNTDOWN_MS
              /\ \E ok \in BOOLEAN :
                   metaCountdownEndAt' =
                     IF ok THEN Some(countdownEndAt') ELSE metaCountdownEndAt
              /\ clickReqs' = [clickReqs EXCEPT ![r] = [@ EXCEPT !.pc = "persist", !.id = id]]
  /\ UNCHANGED <<useDb, page, clockVars, cacheVars, ledgerVars, schedulerVars, consentAnswer, sseVars, fetchVars,
                 clientCounter, clients, clickCounts, clickEvents, consentReqs>>

\* variant: a failed persistCountdownEndAt ends the handler (no catch)
ClickPersistedAborts(r) ==
  /\ clickReqs[r].pc = "persist"
  /\ UNCHANGED <<useDb, page, clockVars, ledgerVars, schedulerVars, consentAnswer,
                 subVars, fetchVars, countdownEndAt, metaCountdownEndAt,
                 clientCounter, clients, clickCounts, clickEvents, consentReqs>>
  /\ IF metaCountdownEndAt # Some(countdownEndAt)
     THEN /\ clickReqs' = [clickReqs EXCEPT ![r] = IdleClick]
          /\ UNCHANGED <<cacheVars, pushVars>>
     ELSE /\ clickReqs' = [clickReqs EXCEPT ![r] =
                             [@ EXCEPT !.pc = "tx", !.timestamp = now]]
          /\ broadcastCountdown(visitsDayKeyCache, visitsTodayCache)

\* persistCountdownEndAt settled: broadcastCountdown(), the timestamp is
\* taken and the transaction awaited
ClickPersisted(r) ==
  /\ clickReqs[r].pc = "persist"
  /\ clickReqs' = [clickReqs EXCEPT ![r] = [@ EXCEPT !.pc = "tx", !.timestamp = now]]
  /\ UNCHANGED <<useDb, page, clockVars, ledgerVars, schedulerVars, consentAnswer, subVars, fetchVars, countdownEndAt,
                 metaCountdownEndAt, clientCounter, clients, clickCounts,
                 clickEvents, consentReqs>>
  /\ broadcastCountdown(visitsDayKeyCache, visitsTodayCache)

\* the click's transaction commits and the handler answers
ClickStored(r) ==
  /\ clickReqs[r].pc = "tx"
  /\ StoreClick(clickReqs[r].id, clickReqs[r].timestamp)
  /\ clickReqs' = [clickReqs EXCEPT ![r] = IdleClick]
  /\ UNCHANGED <<useDb, page, clockVars, cacheVars, ledgerVars, schedulerVars, consentAnswer, sseVars, fetchVars,
                 countdownEndAt, metaCountdownEndAt, clientCounter, clients,
                 consentReqs>>

\* db.runTransaction of the click rejects: the handler has no catch around
\* it, so it ends there with nothing stored and no answer of its own
ClickStoreFailed(r) ==
  /\ clickReqs[r].pc = "tx"
  /\ clickReqs' = [clickReqs EXCEPT ![r] = IdleClick]
  /\ UNCHANGED <<useDb, page, clockVars, cacheVars, ledgerVars, schedulerVars, consentAnswer,
                 sseVars, fetchVars, countdownEndAt, metaCountdownEndAt,
                 clientCounter, clients, clickCounts, clickEvents, consentReqs>>

\* anchors a previous process may have left in meta/visitsDayOffsetMs
PersistedAnchors == {None, Some(1700)}

\* the payout index a previous process has left: MaxBelowCap under the length
\* of the ladder
PersistedIndexes == {LadderLength - MaxBelowCap}

\* fetchNistTimestamp was not called yet
NoFetch ==
  /\ attempt = 0
  /\ stalled = FALSE
  /\ contacted = <<>>

\* const sseClients = new Set(): nobody has connected to /events
NoSubscribers ==
  /\ sseClients = {}
  /\ conn = [s \in Subscribers |-> "none"]
  /\ delivered = [s \in Subscribers |-> 0]
  /\ failed = [s \in Subscribers |-> 0]

\* the state after the declarations and the loads of initialize, the store
\* holding one of anchors in meta/visitsDayOffsetMs
InitFrom(anchors) ==
  /\ now = 1000
  /\ useDb \in BOOLEAN
  /\ page = PageClosed
  /\ nistOffsetMs = 0
  /\ hasNistSync = FALSE
  /\ deploymentStartNistMs = FALSE
  /\ metaVisitsDayOffsetMs \in (IF useDb THEN anchors ELSE {None})
  /\ visitsDayOffsetMs = loadVisitsDayOffsetMs(metaVisitsDayOffsetMs)
  /\ syncPc = "idle"
  /\ resetPc = "idle"
  /\ listening = FALSE
  /\ visitsDayKeyCache = None
  /\ visitsTodayCache = None
  /\ pendingLoads = {}
  /\ memDailyVisits = {}
  /\ fsVisitors = {}
  /\ fsDailyCount = [k \in {} |-> 0]
  /\ requests = [r \in Requests |-> IdleRequest]
  /\ credited = {}
  /\ firstAnswer = [p \in {} |-> 0]
  /\ lastObservedWindowKey = None
  /\ schedulerStarted = FALSE
  /\ payoutCycleIndex \in PersistedIndexes
  /\ countdownEndAt = now + COUNTDOWN_MS
  /\ metaCountdownEndAt = (IF useDb THEN Some(countdownEndAt) ELSE None)
  /\ clientCounter = 0
  /\ clients = [t \in {} |-> 0]
  /\ clickCounts = [c \in {} |-> 0]
  /\ clickEvents = <<>>
  /\ clickReqs = [r \in Requests |-> IdleClick]
  /\ consentReqs = [r \in Requests |-> IdleConsent]
  /\ consentAnswer = NoAnswer
  /\ NoSubscribers
  /\ NoFetch

Init == InitFrom(PersistedAnchors)

\* The visit ledger is run from the state the first successful sync of a
\* fresh deployment leaves at 00:00:01: the anchor initialised, the caches
\* reset and (with Firestore) the count of the window being loaded.
InitLedger ==
  /\ now = 1000
  /\ useDb \in BOOLEAN
  /\ page = PageClosed
  /\ nistOffsetMs = 0
  /\ hasNistSync = TRUE
  /\ deploymentStartNistMs = TRUE
  /\ visitsDayOffsetMs = Some(1000)
  /\ metaVisitsDayOffsetMs = (IF useDb THEN Some(1000) ELSE None)
  /\ syncPc = "idle"
  /\ resetPc = "idle"
  /\ listening = TRUE
  /\ visitsDayKeyCache = DateKey(0)
  /\ visitsTodayCache = Some(0)
  /\ pendingLoads = (IF useDb THEN {[key |-> DateKey(0), count |-> None]} ELSE {})
  /\ memDailyVisits = {}
  /\ fsVisitors = {}
  /\ fsDailyCount = [k \in {} |-> 0]
  /\ requests = [r \in Requests |-> IdleRequest]
  /\ credited = {}
  /\ firstAnswer = [p \in {} |-> 0]
  /\ lastObservedWindowKey = None
  /\ schedulerStarted = FALSE
  /\ payoutCycleIndex = LadderLength - MaxBelowCap
  /\ countdownEndAt = now + COUNTDOWN_MS
  /\ metaCountdownEndAt = (IF useDb THEN Some(countdownEndAt) ELSE None)
  /\ clientCounter = NumClients
  /\ clients = [t \in Tokens |-> t]
  /\ clickCounts = [c \in Clients |-> 0]
  /\ clickEvents = <<>>
  /\ clickReqs = [r \in Requests |-> IdleClick]
  /\ consentReqs = [r \in Requests |-> IdleConsent]
  /\ consentAnswer = NoAnswer
  /\ NoSubscribers
  /\ NoFetch

\* the instants the ledger is run over: two in the first window, then the
\* same second of the following days
LedgerTimes ==
  {t \in Times : \/ t < MS_PER_DAY
                 \/ t % MS_PER_DAY = 1000 /\ t \div MS_PER_DAY <= MaxLedgerDay}

Next ==
  \/ \E t \in LedgerTimes : Advance(t)
  \/ BroadcastCountdown
  \/ \E l \in pendingLoads : LoadRead(l)
  \/ \E l \in pendingLoads : LoadResolve(l)
  \/ \E l \in pendingLoads : LoadFail(l)
  \/ \E c \in Clients : MeMemory(c)
  \/ \E r \in Requests, c \in Clients : MeStart(r, c)
  \/ \E r \in Requests : TxCommit(r)
  \/ \E r \in Requests : MeResume(r)

Spec == InitLedger /\ [][Next]_vars

\* the window clock and the cycle scheduler, on the finer clock
WindowNext ==
  \/ \E t \in Times : Advance(t)
  \/ SyncStart
  \/ SyncFetchFailed
  \/ \E nistMs \in OracleTimestamps(now) : SyncFetched(nistMs)
  \/ SyncDeploymentStartPersisted
  \/ SyncDeploymentStartPersistFailed
  \/ SyncAnchorPersisted
  \/ \E secret \in ResetSecrets, header \in ResetHeaders :
                              AdminReset(secret, header)
  \/ AdminResetPersisted
  \/ CycleSchedulerTick

SpecWindow == Init /\ [][WindowNext]_vars

\* The process is stopped and started again: the module state is what the
\* declarations of lines 350-384 and the loads of initialize make of the
\* store. With Firestore the meta documents, the ledger and the identities
\* are kept; without it everything starts anew. Requests in flight and the
\* /events connections are lost. The stored deployment start is there unless
\* its write had failed.
Restart ==
  /\ UNCHANGED <<useDb, page, now, metaVisitsDayOffsetMs, fsVisitors, fsDailyCount,
                 credited, firstAnswer, payoutCycleIndex, clickEvents, pushVars>>
  /\ nistOffsetMs' = 0
  /\ hasNistSync' = FALSE
  /\ deploymentStartNistMs' \in
       (IF useDb THEN {FALSE, deploymentStartNistMs} ELSE {FALSE})
  /\ visitsDayOffsetMs' =
       (IF useDb THEN loadVisitsDayOffsetMs(metaVisitsDayOffsetMs) ELSE None)
  /\ syncPc' = "idle"
  /\ resetPc' = "idle"
  /\ listening' = FALSE
  /\ visitsDayKeyCache' = None
  /\ visitsTodayCache' = None
  /\ pendingLoads' = {}
  /\ memDailyVisits' = {}
  /\ requests' = [r \in Requests |-> IdleRequest]
  /\ lastObservedWindowKey' = None
  /\ schedulerStarted' = FALSE
  /\ countdownEndAt' = (IF useDb
                        THEN loadCountdownEndAt(metaCountdownEndAt, now)
                        ELSE now + COUNTDOWN_MS)
  /\ metaCountdownEndAt' = (IF useDb THEN Some(countdownEndAt') ELSE None)
  /\ clientCounter' = (IF useDb THEN clientCounter ELSE 0)
  /\ clients' = (IF useDb THEN clients ELSE [t \in {} |-> 0])
  /\ clickCounts' = (IF useDb THEN clickCounts ELSE [c \in {} |-> 0])
  /\ clickReqs' = [r \in Requests |-> IdleClick]
  /\ consentReqs' = [r \in Requests |-> IdleConsent]
  /\ consentAnswer' = NoAnswer
  /\ sseClients' = {}
  /\ conn' = [s \in Subscribers |-> IF conn[s] = "none" THEN "none" ELSE "closed"]
  /\ attempt' = 0
  /\ stalled' = FALSE
  /\ contacted' = <<>>

\* the source of the attempt answers a timestamp that parses
AttemptAnswers(nistMs) ==
  /\ attempt >= 1
  /\ ~stalled
  /\ nistMs \in SourceTimestamps(attempt, now)
  /\ SyncFetched(nistMs)

\* The refresh with the attempts of fetchNistTimestamp one by one.
FetchNext ==
  \/ \E t \in Times : Advance(t)
  \/ SyncStart
  \/ AttemptBegin
  \/ AttemptStalls
  \/ \E reason \in {"down", "status", "parse"} : AttemptFails(reason)
  \/ AttemptTimesOut
  \/ AttemptAbortedByRuntime
  \/ \E nistMs \in OracleTimestamps(now) : AttemptAnswers(nistMs)
  \/ SyncDeploymentStartPersisted
  \/ SyncDeploymentStartPersistFailed
  \/ SyncAnchorPersisted

\* a source that has not gone silent responds or fails
AttemptResponds ==
  \/ \E reason \in {"down", "status", "parse"} : AttemptFails(reason)
  \/ \E nistMs \in OracleTimestamps(now) : AttemptAnswers(nistMs)

\* what the code schedules: the first attempt is made, a source that has not
\* gone silent responds or fails, the timer of a daytime attempt fires. That
\* a silent HTTP attempt is ended is left to the runtime.
FetchFairness ==
  /\ WF_vars(AttemptBegin)
  /\ WF_vars(AttemptResponds)
  /\ WF_vars(AttemptTimesOut)

SpecFetch == Init /\ [][FetchNext]_vars /\ FetchFairness

\* the window clock across restarts of the process
RestartNext ==
  \/ \E t \in Times : Advance(t)
  \/ Restart
  \/ StartupLoadFailed
  \/ SyncStart
  \/ SyncFetchFailed
  \/ \E nistMs \in OracleTimestamps(now) : SyncFetched(nistMs)
  \/ SyncDeploymentStartPersisted
  \/ SyncDeploymentStartPersistFailed
  \/ SyncAnchorPersisted
  \/ \E secret \in ResetSecrets, header \in ResetHeaders :
                              AdminReset(secret, header)
  \/ AdminResetPersisted

SpecRestart == Init /\ [][RestartNext]_vars

\* numbers an earlier deployment or an operator may have left in
\* meta/visitsDayOffsetMs: none, in range, negative, a day and more
StoredAnchors ==
  {None, Some(1700), Some(-1700), Some(MS_PER_DAY + 1700), Some(-MS_PER_DAY)}

InitStored == InitFrom(StoredAnchors)

\* the window clock across restarts, on a store holding any of these anchors
SpecAnchor == InitStored /\ [][RestartNext]_vars

\* The whole server with one browser and one of its requests in flight:
\* the clock, the syncs, the admin reset, the 1 Hz tick, the cache loads,
\* the visit credits, consent and clicks.
FrameTimes == {t \in Times : t \div MS_PER_DAY <= MaxFrameDay}

\* no browser request is in flight
NoRequestInFlight ==
  /\ \A r \in Requests : requests[r].pc = "idle"
  /\ \A r \in Requests : clickReqs[r].pc = "idle"
  /\ \A r \in Requests : consentReqs[r].pc = "idle"
  /\ resetPc = "idle"

FrameNext ==
  \/ \E t \in FrameTimes : Advance(t)
  \/ SyncStart
  \/ SyncFetchFailed
  \/ \E nistMs \in OracleTimestamps(now) : SyncFetched(nistMs)
  \/ SyncDeploymentStartPersisted
  \/ SyncDeploymentStartPersistFailed
  \/ SyncAnchorPersisted
  \/ NoRequestInFlight /\ \E secret \in ResetSecrets, header \in ResetHeaders :
                              AdminReset(secret, header)
  \/ AdminResetPersisted
  \/ BroadcastCountdown
  \/ \E l \in pendingLoads : LoadRead(l)
  \/ \E l \in pendingLoads : LoadResolve(l)
  \/ \E l \in pendingLoads : LoadFail(l)
  \/ ConsentMemory(1)
  \/ NoRequestInFlight /\ ConsentStart(1, 1)
  \/ ConsentLookedUp(1)
  \/ ConsentAssigned(1)
  \/ ClickMemory(1)
  \/ NoRequestInFlight /\ ClickStart(1, 1)
  \/ ClickLookedUp(1)
  \/ ClickPersisted(1)
  \/ ClickStored(1)
  \/ MeMemory(1)
  \/ NoRequestInFlight /\ MeStart(1, 1)
  \/ TxCommit(1)
  \/ MeResume(1)

SpecFrame == Init /\ [][FrameNext]_vars

\* Identities are assigned from a state after the first sync in which no
\* token of the model is registered yet: on a new store (counter 0) or on
\* one whose counter is one below the cap (the ids up to the counter belong
\* to tokens that send no request here).
InitIdentity ==
  /\ now = 1000
  /\ useDb \in BOOLEAN
  /\ page = PageClosed
  /\ nistOffsetMs = 0
  /\ hasNistSync = TRUE
  /\ deploymentStartNistMs = TRUE
  /\ visitsDayOffsetMs = Some(1000)
  /\ metaVisitsDayOffsetMs = (IF useDb THEN Some(1000) ELSE None)
  /\ syncPc = "idle"
  /\ resetPc = "idle"
  /\ listening = TRUE
  /\ visitsDayKeyCache = DateKey(0)
  /\ visitsTodayCache = Some(0)
  /\ pendingLoads = {}
  /\ memDailyVisits = {}
  /\ fsVisitors = {}
  /\ fsDailyCount = [k \in {} |-> 0]
  /\ requests = [r \in Requests |-> IdleRequest]
  /\ credited = {}
  /\ firstAnswer = [p \in {} |-> 0]
  /\ lastObservedWindowKey = None
  /\ schedulerStarted = FALSE
  /\ payoutCycleIndex = LadderLength - MaxBelowCap
  /\ countdownEndAt = now + COUNTDOWN_MS
  /\ metaCountdownEndAt = (IF useDb THEN Some(countdownEndAt) ELSE None)
  /\ clientCounter \in {0, MAX_CLIENTS - 1}
  /\ clients = [t \in {} |-> 0]
  /\ clickCounts = [c \in {} |-> 0]
  /\ clickEvents = <<>>
  /\ clickReqs = [r \in Requests |-> IdleClick]
  /\ consentReqs = [r \in Requests |-> IdleConsent]
  /\ consentAnswer = NoAnswer
  /\ NoSubscribers
  /\ NoFetch

IdentityNext ==
  \/ \E t \in Tokens : ConsentMemory(t)
  \/ \E r \in Requests, t \in Tokens : ConsentStart(r, t)
  \/ \E r \in Requests : ConsentLookedUp(r)
  \/ \E r \in Requests : ConsentAssigned(r)

SpecIdentity == InitIdentity /\ [][IdentityNext]_vars

\* the pushes of a behaviour are bounded
PushesBelowCap == \A s \in Subscribers : delivered[s] + failed[s] < MaxPushes

\* The writes of derived state, with one browser, one subscriber and one
\* request in flight: the syncs, the admin reset, consent and clicks, the
\* 1 Hz tick and the cache loads.
PersistNext ==
  \/ \E t \in FrameTimes : Advance(t)
  \/ SyncStart
  \/ SyncFetchFailed
  \/ \E nistMs \in OracleTimestamps(now) : SyncFetched(nistMs)
  \/ SyncDeploymentStartPersisted
  \/ PushesBelowCap /\ SyncAnchorPersisted
  \/ NoRequestInFlight /\ AdminReset(Some(RESET_PAYOUT_TOKEN), Some(RESET_PAYOUT_TOKEN))
  \/ PushesBelowCap /\ AdminResetPersisted
  \/ Subscribe(1)
  \/ NoRequestInFlight /\ ConsentStart(1, 1)
  \/ ConsentLookedUp(1)
  \/ ConsentAssigned(1)
  \/ NoRequestInFlight /\ ClickStart(1, 1)
  \/ ClickLookedUp(1)
  \/ PushesBelowCap /\ ClickPersisted(1)
  \/ ClickStored(1)
  \/ \E l \in pendingLoads : LoadRead(l)
  \/ \E l \in pendingLoads : LoadResolve(l)
  \/ \E l \in pendingLoads : LoadFail(l)

\* a process with Firestore
InitDb == Init /\ useDb

SpecPersist == InitDb /\ [][PersistNext]_vars

\* The tick beside the refresh: the attempts of the fetch one by one, the
\* writes of the first sync, one subscriber, the 1 Hz tick and the cache
\* loads.
TickNext ==
  \/ \E t \in FrameTimes : Advance(t)
  \/ SyncStart
  \/ AttemptBegin
  \/ AttemptStalls
  \/ \E reason \in {"down", "status", "parse"} : AttemptFails(reason)
  \/ AttemptTimesOut
  \/ AttemptAbortedByRuntime
  \/ \E nistMs \in OracleTimestamps(now) : AttemptAnswers(nistMs)
  \/ SyncDeploymentStartPersisted
  \/ SyncDeploymentStartPersistFailed
  \/ SyncAnchorPersisted
  \/ PushesBelowCap /\ BroadcastCountdown
  \/ Subscribe(1)
  \/ \E l \in pendingLoads : LoadRead(l)
  \/ \E l \in pendingLoads : LoadResolve(l)
  \/ \E l \in pendingLoads : LoadFail(l)

SpecTick == Init /\ [][TickNext]_vars

\* the fields of the payload that depend on the window, read after the
\* refresh of the cache: nistReady, payoutRemaining, visitsToday
Snapshot ==
  [nistReady |-> isNistReadyForWindow,
   payoutRemaining |-> getPayoutRemainingSeconds,
   visitsToday |-> IF isNistReadyForWindow THEN visitsTodayCache ELSE None]

\* The snapshots of a server with one browser and one subscriber: the
\* syncs, the admin reset, consent and the visit credits, the 1 Hz tick, the
\* subscription and the cache loads.
SnapshotNext ==
  \/ \E t \in FrameTimes : Advance(t)
  \/ SyncStart
  \/ SyncFetchFailed
  \/ \E nistMs \in OracleTimestamps(now) : SyncFetched(nistMs)
  \/ SyncDeploymentStartPersisted
  \/ SyncDeploymentStartPersistFailed
  \/ SyncAnchorPersisted
  \/ NoRequestInFlight /\ PushesBelowCap
       /\ AdminReset(Some(RESET_PAYOUT_TOKEN), Some(RESET_PAYOUT_TOKEN))
  \/ AdminResetPersisted
  \/ PushesBelowCap /\ BroadcastCountdown
  \/ Subscribe(1)
  \/ \E l \in pendingLoads : LoadRead(l)
  \/ \E l \in pendingLoads : LoadResolve(l)
  \/ \E l \in pendingLoads : LoadFail(l)
  \/ ConsentMemory(1)
  \/ NoRequestInFlight /\ ConsentStart(1, 1)
  \/ ConsentLookedUp(1)
  \/ ConsentAssigned(1)
  \/ MeMemory(1)
  \/ NoRequestInFlight /\ MeStart(1, 1)
  \/ TxCommit(1)
  \/ MeResume(1)

SpecSnapshot == Init /\ [][SnapshotNext]_vars

\* The window clock around its boundaries. The anchors, the offsets, the
\* boundaries of the adjusted clock (0 and one day) and how far before a
\* boundary the clock starts.
RolloverAnchors == {0, 5000, MS_PER_DAY - 1}

RolloverOffsets == {-700, 0, 300}

RolloverBoundaries == {0, MS_PER_DAY}

RolloverLeads == {3, 1003, 3000}

\* a synced server whose adjusted clock is shortly before a boundary
InitRollover ==
  /\ useDb \in BOOLEAN
  /\ page = PageClosed
  /\ nistOffsetMs \in RolloverOffsets
  /\ hasNistSync = TRUE
  /\ deploymentStartNistMs = TRUE
  /\ visitsDayOffsetMs \in {Some(a) : a \in RolloverAnchors}
  /\ \E boundary \in RolloverBoundaries, before \in RolloverLeads :
       now = boundary - before + Val(visitsDayOffsetMs) - nistOffsetMs
  /\ now >= 0
  /\ metaVisitsDayOffsetMs = (IF useDb THEN visitsDayOffsetMs ELSE None)
  /\ syncPc = "idle"
  /\ resetPc = "idle"
  /\ listening = TRUE
  /\ visitsDayKeyCache = None
  /\ visitsTodayCache = None
  /\ pendingLoads = {}
  /\ memDailyVisits = {}
  /\ fsVisitors = {}
  /\ fsDailyCount = [k \in {} |-> 0]
  /\ requests = [r \in Requests |-> IdleRequest]
  /\ credited = {}
  /\ firstAnswer = [p \in {} |-> 0]
  /\ lastObservedWindowKey = None
  /\ schedulerStarted = FALSE
  /\ payoutCycleIndex = LadderLength - MaxBelowCap
  /\ countdownEndAt = now + COUNTDOWN_MS
  /\ metaCountdownEndAt = (IF useDb THEN Some(countdownEndAt) ELSE None)
  /\ clientCounter = NumClients
  /\ clients = [t \in Tokens |-> t]
  /\ clickCounts = [c \in Clients |-> 0]
  /\ clickEvents = <<>>
  /\ clickReqs = [r \in Requests |-> IdleClick]
  /\ consentReqs = [r \in Requests |-> IdleConsent]
  /\ consentAnswer = NoAnswer
  /\ NoSubscribers
  /\ NoFetch

\* the adjusted clock is within 3 s of a window boundary
NearBoundary == (getAdjustedNistNowMs + 3003) % MS_PER_DAY < 6003

\* the local clock moves to the next instant: the next millisecond (near
\* the turn of a second) or the next second
ClockStep(d) ==
  /\ NearBoundary
  /\ d = 1 => (getAdjustedNistNowMs + 3) % 1000 < 6
  /\ Advance(now + d)

RolloverNext == \E d \in {1, 1000} : ClockStep(d)

SpecRollover == InitRollover /\ [][RolloverNext]_vars

\* The event stream is run from the state after the first sync: the tick,
\* the connections and the reads of the cache refresh.
EventsNext ==
  \/ \E t \in FrameTimes : Advance(t)
  \/ PushesBelowCap /\ BroadcastCountdown
  \/ \E s \in Subscribers : Subscribe(s)
  \/ \E s \in Subscribers : ConnectionBreaks(s)
  \/ \E s \in Subscribers : SubscriberClose(s)
  \/ \E l \in pendingLoads : LoadRead(l)
  \/ \E l \in pendingLoads : LoadResolve(l)
  \/ \E l \in pendingLoads : LoadFail(l)

SpecEvents == InitLedger /\ [][EventsNext]_vars

\* The countdown, from the state the ledger starts in (synced, listening,
\* every browser registered): the clock over several countdown lengths, the
\* 1 Hz tick, the cache loads and the clicks of every browser.
CountdownTimes ==
  {k * COUNTDOWN_MS + m : k \in 0..MaxCountdowns, m \in InDayMarks}

CountdownNext ==
  \/ \E t \in CountdownTimes : Advance(t)
  \/ BroadcastCountdown
  \/ \E l \in pendingLoads : LoadRead(l)
  \/ \E l \in pendingLoads : LoadResolve(l)
  \/ \E l \in pendingLoads : LoadFail(l)
  \/ \E token \in Tokens : ClickMemory(token)
  \/ \E r \in Requests, token \in Tokens : ClickStart(r, token)
  \/ \E r \in Requests : ClickLookedUp(r)
  \/ \E r \in Requests : ClickPersisted(r)
  \/ \E r \in Requests : ClickStored(r)

SpecCountdown == InitLedger /\ [][CountdownNext]_vars

\* cookies a click may carry: those of the registered browsers and one that
\* no identity was assigned to
ClickTokens == Tokens \cup {NumClients + 1}

\* The clicks with every outcome of their store writes: the countdown with
\* clicks of registered and unregistered browsers and a click transaction
\* that may be rejected.
ClicksNext ==
  \/ \E t \in CountdownTimes : Advance(t)
  \/ \E token \in ClickTokens : ClickMemory(token)
  \/ \E r \in Requests, token \in ClickTokens : ClickStart(r, token)
  \/ \E r \in Requests : ClickLookedUp(r)
  \/ \E r \in Requests : ClickPersisted(r)
  \/ \E r \in Requests : ClickStored(r)
  \/ \E r \in Requests : ClickStoreFailed(r)

SpecClicks == InitLedger /\ [][ClicksNext]_vars

\* The countdown across restarts of the process: one browser clicks, the
\* process is stopped and started again, and the eager refresh of the start
\* (answered or failed) makes the server listen again.
RestartCountdownNext ==
  \/ \E t \in CountdownTimes : Advance(t)
  \/ Restart
  \/ SyncStart
  \/ SyncFetchFailed
  \/ \E nistMs \in OracleTimestamps(now) : SyncFetched(nistMs)
  \/ SyncDeploymentStartPersisted
  \/ SyncDeploymentStartPersistFailed
  \/ ClickMemory(1)
  \/ ClickStart(1, 1)
  \/ ClickLookedUp(1)
  \/ ClickPersisted(1)
  \/ ClickStored(1)

SpecRestartCountdown == InitLedger /\ [][RestartCountdownNext]_vars

\* The start of the process and the refreshes after it.  The event loop runs
\* the eager refresh and every interval's refresh, each fetch ends (answered,
\* or failed on its errors and timeouts) and each Firestore write settles.
StartupNext ==
  \/ \E t \in Times : Advance(t)
  \/ StartupLoadFailed
  \/ SyncStart
  \/ SyncFetchFailed
  \/ \E nistMs \in OracleTimestamps(now) : SyncFetched(nistMs)
  \/ SyncDeploymentStartPersisted
  \/ SyncDeploymentStartPersistFailed
  \/ SyncAnchorPersisted

SyncFetchEnds ==
  SyncFetchFailed \/ \E nistMs \in OracleTimestamps(now) : SyncFetched(nistMs)

SyncWriteSettles ==
  \/ SyncDeploymentStartPersisted
  \/ SyncDeploymentStartPersistFailed
  \/ SyncAnchorPersisted

StartupFairness ==
  /\ WF_vars(SyncStart)
  /\ WF_vars(SyncFetchEnds)
  /\ WF_vars(SyncWriteSettles)

SpecStartup == Init /\ [][StartupNext]_vars /\ StartupFairness

\* the oracle is reachable again and again: a fetch that is awaited over and
\* over is answered at some time
OracleReachable == SF_vars(\E nistMs \in OracleTimestamps(now) : SyncFetched(nistMs))

SpecRecovery == Init /\ [][StartupNext]_vars /\ StartupFairness /\ OracleReachable

(* ------------------------- claims: visit ledger ----------------------- *)

\* the count the store holds for a window
StoredCount(dayKey) == IF useDb THEN FsCount(dayKey) ELSE MemCount(dayKey)

CreditedIn(dayKey) == {c \in Clients : <<dayKey, c>> \in credited}

KnownKeys ==
  {p[1] : p \in credited} \cup {p[1] : p \in memDailyVisits} \cup DOMAIN fsDailyCount

\* C1: however the credits of one identity in one window interleave, with the
\* in-memory store or with Firestore transactions, the window's count rises by
\* one for that identity: the stored count of every window is the number of
\* distinct identities credited in it.
C1_NoDoubleCount ==
  \A k \in KnownKeys : StoredCount(k) = Cardinality(CreditedIn(k))

\* two transactions of the same identity in the same window have both
\* committed before either resumed, and the window counts 1
C1_Witness ==
  /\ useDb
  /\ requests[1].pc = "resume"
  /\ requests[2].pc = "resume"
  /\ requests[1].id = requests[2].id
  /\ requests[1].dayKey = requests[2].dayKey
  /\ FsCount(requests[1].dayKey) = 1

\* no credit and no cache load is in flight, and the cache holds a count for
\* the current window (so that the next refresh starts no load)
Quiescent ==
  /\ \A r \in Requests : requests[r].pc = "idle"
  /\ pendingLoads = {}
  /\ visitsDayKeyCache = getNistDayKey
  /\ visitsTodayCache # None

\* visitsToday of the snapshot a broadcast would send now (the refresh of
\* the cache, then the cache)
ServedVisitsToday ==
  IF ~isNistReadyForWindow THEN None
  ELSE IF visitsDayKeyCache = getNistDayKey /\ visitsTodayCache # None
  THEN visitsTodayCache
  ELSE IF ~useDb THEN Some(MemCount(getNistDayKey))
  ELSE Some(0)

\* C2: once N distinct identities are credited in the current window and no
\* credit and no cache load is in flight, the count served for the window is
\* N, whatever the order of the credits and of the cache refreshes was.
C2_ServedCountIsN ==
  (Quiescent /\ isNistReadyForWindow)
    => ServedVisitsToday = Some(Cardinality(CreditedIn(getNistDayKey)))

\* C3: crediting an identity that is already credited in the window leaves
\* the window's visitor set and its stored count as they were.
C3_RepeatCreditIdempotent ==
  [][/\ \A c \in Clients :
         (MeMemory(c) /\ <<getNistDayKey, c>> \in credited)
           => memDailyVisits' = memDailyVisits
     /\ \A r \in Requests :
         (TxCommit(r) /\ <<requests[r].dayKey, requests[r].id>> \in credited)
           => UNCHANGED <<fsVisitors, fsDailyCount>>]_vars

\* a repeated credit has acted: two transactions of different identities in
\* one window have both returned 2, so one of them found its identity there
C3_Witness ==
  \E r \in Requests, q \in Requests :
    /\ requests[r].pc = "resume" /\ requests[q].pc = "resume"
    /\ requests[r].id # requests[q].id
    /\ requests[r].dayKey = requests[q].dayKey
    /\ requests[r].newCount = 2 /\ requests[q].newCount = 2
    /\ FsCount(requests[r].dayKey) = 2

(* ------------------------ claims: cycle scheduler --------------------- *)

\* C4: a tick after the first that observes a key different from the last
\* observed one, both non-null, raises the payout index by exactly 1 (below
\* the ladder length); the index changes in no other step, and a tick that
\* observes the key already recorded leaves it alone.
C4_OneAdvancePerTransition ==
  [][/\ (payoutCycleIndex' # payoutCycleIndex)
         => (/\ schedulerStarted
             /\ KeyTransition(lastObservedWindowKey, getNistDayKey)
             /\ payoutCycleIndex' = payoutCycleIndex + 1
             /\ lastObservedWindowKey' = getNistDayKey)
     /\ (CycleSchedulerTick /\ schedulerStarted
           /\ lastObservedWindowKey # None /\ getNistDayKey # None
           /\ getNistDayKey # lastObservedWindowKey
           /\ payoutCycleIndex < LadderLength)
         => (payoutCycleIndex' = payoutCycleIndex + 1)
     /\ (CycleSchedulerTick /\ lastObservedWindowKey = getNistDayKey)
         => (payoutCycleIndex' = payoutCycleIndex)]_vars

\* a transition has been observed and counted once
C4_Witness ==
  /\ payoutCycleIndex = LadderLength - MaxBelowCap + 1
  /\ lastObservedWindowKey = getNistDayKey
  /\ getNistDayKey = DateKey(MS_PER_DAY)

\* C5: the payout index is at least 1, never decreases, never skips a value
\* and never exceeds the ladder length.
C5_IndexMonotoneCapped ==
  [][/\ payoutCycleIndex >= 1
     /\ payoutCycleIndex' >= payoutCycleIndex
     /\ payoutCycleIndex' <= payoutCycleIndex + 1
     /\ payoutCycleIndex' <= LadderLength]_vars

\* the index is at the ladder length and a further transition is observable
C5_Witness ==
  /\ payoutCycleIndex = LadderLength
  /\ schedulerStarted
  /\ KeyTransition(lastObservedWindowKey, getNistDayKey)

\* C6: the first tick of a process records the window key and leaves the
\* payout index as it was loaded.
C6_FirstTickOnlyRecords ==
  [][(~schedulerStarted /\ schedulerStarted')
       => (/\ payoutCycleIndex' = payoutCycleIndex
           /\ lastObservedWindowKey' = getNistDayKey)]_vars

\* the first tick has recorded a window key: nothing was advanced
C6_Witness ==
  /\ schedulerStarted
  /\ lastObservedWindowKey # None
  /\ payoutCycleIndex = LadderLength - MaxBelowCap

(* ------------------------- claims: window clock ----------------------- *)

\* the number of the window the adjusted clock is in at local time t, with
\* the offset and the anchor as they are
WindowIndex(t) == (t + nistOffsetMs - Val(visitsDayOffsetMs)) \div MS_PER_DAY

\* C7: while the anchor stays as it is, the window key changes exactly when
\* the local clock carries the adjusted clock over a multiple of 86,400,000
\* ms; a step that leaves the clock alone (a re-sync) does not change it.
C7_KeyChangesOnlyAtBoundary ==
  [][(isNistReadyForWindow /\ visitsDayOffsetMs' = visitsDayOffsetMs)
       => ((getNistDayKey' # getNistDayKey) <=> (WindowIndex(now') # WindowIndex(now)))]_vars

\* C8: in a ready window getPayoutRemainingSeconds is in 1..86400, and 86400
\* when the adjusted clock is on a window boundary; it is null otherwise.
C8_PayoutRemainingInRange ==
  IF isNistReadyForWindow
  THEN /\ getPayoutRemainingSeconds # None
       /\ Val(getPayoutRemainingSeconds) \in 1..PAYOUT_CYCLE_SECONDS
       /\ (getAdjustedNistNowMs % MS_PER_DAY = 0)
            => (getPayoutRemainingSeconds = Some(PAYOUT_CYCLE_SECONDS))
  ELSE getPayoutRemainingSeconds = None

\* the window is ready and the adjusted clock is negative
C8_Witness ==
  /\ isNistReadyForWindow
  /\ getAdjustedNistNowMs < 0
  /\ getPayoutRemainingSeconds = Some(1)

\* C9: a step that initialises the anchor (the first sync with the anchor
\* unset, or an admin reset) sets it to the oracle clock modulo 86,400,000,
\* and getPayoutRemainingSeconds is 86400 right after it.
C9_AnchorInitStartsWindow ==
  [][(visitsDayOffsetMs' # visitsDayOffsetMs)
       => (/\ visitsDayOffsetMs' = Some((now' + nistOffsetMs') % MS_PER_DAY)
           /\ getPayoutRemainingSeconds' = Some(PAYOUT_CYCLE_SECONDS))]_vars

\* the first sync, answered to the whole second, has just initialised the
\* anchor and is persisting it
C9_Witness ==
  /\ syncPc = "persistVisitsDayOffset"
  /\ nistOffsetMs # 0
  /\ visitsDayOffsetMs = Some((now + nistOffsetMs) % MS_PER_DAY)
  /\ getPayoutRemainingSeconds = Some(PAYOUT_CYCLE_SECONDS)

\* C10: once the anchor is set, a step that changes it is a successful admin
\* reset: the syncs (answered or failed), the 1 Hz tick, the cache loads, the
\* visit credits, the clicks and the consent requests leave it as it is.
C10_AnchorChangedOnlyByReset ==
  [][(visitsDayOffsetMs # None /\ visitsDayOffsetMs' # visitsDayOffsetMs)
       => (\E secret \in ResetSecrets, header \in ResetHeaders :
             requireResetToken(secret, header) /\ AdminReset(secret, header))]_vars

\* the anchor 1700 was in place when a sync answered to the whole second, and
\* the browser has consented, clicked and been credited
C10_Witness ==
  /\ visitsDayOffsetMs = Some(1700)
  /\ nistOffsetMs = -700
  /\ syncPc = "idle"
  /\ clientCounter > 0
  /\ Len(clickEvents) > 0
  /\ credited # {}

\* date order on window keys
KeyLess(a, b) ==
  \/ a[1] < b[1]
  \/ a[1] = b[1] /\ a[2] < b[2]
  \/ a[1] = b[1] /\ a[2] = b[2] /\ a[3] < b[3]

\* C11: the window key used by the broadcasts and the credits (the key they
\* leave in visitsDayKeyCache) never moves backwards in date order, across
\* re-syncs and admin resets included.
C11_KeyNeverMovesBack ==
  [][(visitsDayKeyCache # None /\ visitsDayKeyCache' # None)
       => ~KeyLess(visitsDayKeyCache', visitsDayKeyCache)]_vars

\* C12: a click of an identified visitor, once its lookup has answered, sets
\* the deadline to now + 60 s, whether time remains or the countdown has
\* expired.
C12_ClickAlwaysResets ==
  [][\A r \in Requests :
       (/\ clickReqs[r].pc = "lookup"
        /\ clickReqs'[r].pc # "lookup"
        /\ getClientId(clickReqs[r].token) # 0)
         => countdownEndAt' = now + COUNTDOWN_MS]_vars

\* C13: right after a click resets the deadline the remaining seconds are 60;
\* while the deadline stays they never increase as the clock advances, they
\* are 0 from the deadline on, and not before.
C13_RemainingRunsDown ==
  [][/\ (countdownEndAt' # countdownEndAt)
          => (getRemainingSeconds' = COUNTDOWN_MS \div 1000)
     /\ (countdownEndAt' = countdownEndAt)
          => (getRemainingSeconds' <= getRemainingSeconds)
     /\ (now' >= countdownEndAt') => (getRemainingSeconds' = 0)
     /\ (getRemainingSeconds' = 0) => (now' >= countdownEndAt')]_vars

\* a click at 1700 has been stored and its 60 seconds have run out
C13_Witness ==
  /\ Len(clickEvents) > 0
  /\ countdownEndAt = 1700 + COUNTDOWN_MS
  /\ now > countdownEndAt
  /\ getRemainingSeconds = 0

\* no oracle fetch has succeeded so far (the first one that does sets
\* deploymentStartNistMs in the same turn)
NoOracleYet == ~deploymentStartNistMs

\* a step in which a click of an identified visitor gets past the expiry
\* check: the whole handler in memory, the answer of the lookup with Firestore
ClickGoesOn ==
  \/ ~useDb /\ Len(clickEvents') > Len(clickEvents)
  \/ \E r \in Requests :
       /\ clickReqs[r].pc = "lookup"
       /\ clickReqs'[r].pc # "lookup"
       /\ getClientId(clickReqs[r].token) # 0
       /\ getRemainingSeconds # 0

\* C14: while no oracle fetch has succeeded the window is not ready, a
\* snapshot carries payoutRemaining and visitsToday null, and no visit is
\* credited; clicks still set the deadline to now + 60 s, with 60 seconds
\* remaining on the local clock.
C14_NoOracleNoWindow ==
  /\ [](NoOracleYet =>
          (/\ ~isNistReadyForWindow
           /\ getPayoutRemainingSeconds = None
           /\ ServedVisitsToday = None
           /\ credited = {}
           /\ memDailyVisits = {}
           /\ fsVisitors = {}))
  /\ [][(NoOracleYet /\ ClickGoesOn)
          => (/\ countdownEndAt' = now + COUNTDOWN_MS
              /\ getRemainingSeconds' = COUNTDOWN_MS \div 1000)]_vars

\* the anchor was loaded from Firestore, no fetch has succeeded, and a click
\* at 1700 has been stored
C14_Witness ==
  /\ NoOracleYet
  /\ listening
  /\ visitsDayOffsetMs # None
  /\ Len(clickEvents) > 0
  /\ countdownEndAt = 1700 + COUNTDOWN_MS

\* C15: hasNistSync is true once the refresh whose fetch was the first to
\* succeed is over, and once true it is never false again.
C15_EverSyncedFlag ==
  [][/\ hasNistSync => hasNistSync'
     /\ (deploymentStartNistMs' /\ syncPc' = "idle") => hasNistSync']_vars

\* C16: a refresh in which every source fails leaves the offset, the
\* ever-synced flag and the anchor as they were, so a window that was ready
\* stays ready.
C16_FailedRefreshChangesNothing ==
  [][SyncFetchFailed
       => (/\ nistOffsetMs' = nistOffsetMs
           /\ hasNistSync' = hasNistSync
           /\ visitsDayOffsetMs' = visitsDayOffsetMs
           /\ deploymentStartNistMs' = deploymentStartNistMs
           /\ isNistReadyForWindow => isNistReadyForWindow'
           /\ getNistDayKey' = getNistDayKey)]_vars

\* the eager refresh of the start has failed (the server listens and no
\* fetch has succeeded) and the anchor loaded from Firestore is still there
C16_Witness ==
  /\ listening
  /\ syncPc = "idle"
  /\ ~deploymentStartNistMs
  /\ ~hasNistSync
  /\ nistOffsetMs = 0
  /\ visitsDayOffsetMs = Some(1700)

C18_EventuallyReady == <>isNistReadyForWindow


(* --------------------------- the event stream ------------------------- *)

\* C19: when the push of a snapshot to a subscriber fails, the subscriber
\* leaves the subscriber set with that step and no later push to it is
\* attempted, and every other subscriber whose connection is open receives
\* the snapshot of that step.
C19_FailedPushDrops ==
  [][\A s \in Subscribers :
       failed'[s] > failed[s] =>
         /\ failed[s] = 0
         /\ s \notin sseClients'
         /\ \A o \in sseClients \ {s} :
              conn[o] = "open" => delivered'[o] = delivered[o] + 1]_vars

\* C20: a subscription delivers exactly one snapshot to the new subscriber in
\* the step that makes it a subscriber (so before any tick reaches it); every
\* tick while its connection is open delivers one more; a snapshot arrives
\* only through one of the two; and after the close nothing arrives and the
\* subscriber is out of the set.
C20_SubscriberStream ==
  /\ [][\A s \in Subscribers :
          /\ (conn[s] = "none" /\ conn'[s] # "none") =>
                /\ conn'[s] = "open"
                /\ s \in sseClients'
                /\ delivered[s] = 0
                /\ delivered'[s] = 1
          /\ (BroadcastCountdown /\ conn[s] = "open") =>
                delivered'[s] = delivered[s] + 1
          /\ (conn[s] = conn'[s] /\ delivered'[s] # delivered[s]) =>
                /\ conn[s] = "open"
                /\ s \in sseClients
                /\ delivered'[s] = delivered[s] + 1
          /\ conn[s] = "closed" =>
                /\ conn'[s] = "closed"
                /\ delivered'[s] = delivered[s]]_vars
  /\ [](\A s \in Subscribers : conn[s] = "closed" => s \notin sseClients)

\* a subscriber that got the initial snapshot and every tick up to the bound
\* has closed, while another one subscribed later and is still served
C20_Witness ==
  \E s, o \in Subscribers :
    /\ conn[s] = "closed"
    /\ delivered[s] = MaxPushes
    /\ conn[o] = "open"
    /\ delivered[o] = 1


(* ------------------------------ identities ---------------------------- *)

\* C21: a token that has an id keeps that id for ever (no step gives it
\* another one or takes it away), and every answered consent for a
\* registered token carries the id the token has.
C21_TokenKeepsId ==
  /\ [][\A t \in DOMAIN clients :
          t \in DOMAIN clients' /\ clients'[t] = clients[t]]_vars
  /\ [](consentAnswer.status = 200 =>
          getClientId(consentAnswer.token) = consentAnswer.id)


\* C22: two tokens never hold the same id; every id held lies between 1 and
\* the counter; a step that changes the counter adds exactly 1 to it and
\* gives the new value as id to one token and to no other; an id is given
\* only by such a step; and the counter never exceeds MAX_CLIENTS.
C22_SequentialIds ==
  /\ [](/\ \A t1, t2 \in DOMAIN clients :
             t1 # t2 => clients[t1] # clients[t2]
        /\ \A t \in DOMAIN clients :
             clients[t] >= 1 /\ clients[t] <= clientCounter
        /\ clientCounter <= MAX_CLIENTS)
  /\ [][/\ clientCounter' # clientCounter =>
            /\ clientCounter' = clientCounter + 1
            /\ Cardinality({t \in DOMAIN clients' :
                              clients'[t] = clientCounter'}) = 1
        /\ clients' # clients => clientCounter' = clientCounter + 1]_vars

\* both tokens of the model were registered on a new store, and hold the
\* ids 1 and 2
C22_Witness ==
  /\ DOMAIN clients = Tokens
  /\ clientCounter = NumClients
  /\ {clients[t] : t \in Tokens} = 1..NumClients


\* C23: while the counter is at the cap no step changes the counter, the
\* ids of the tokens or the click counts; a consent that reaches
\* assignClientId there is answered 403 without a cookie and without an id,
\* and the request is over (it is not tried again).
C23_CapRejects ==
  [][clientCounter >= MAX_CLIENTS =>
       /\ UNCHANGED <<clientCounter, clients, clickCounts>>
       /\ \A t \in Tokens :
            (ConsentMemory(t) /\ getClientId(t) = 0) =>
              consentAnswer' = [token |-> t, status |-> 403, id |-> 0,
                                cookie |-> FALSE]
       /\ \A r \in Requests :
            ConsentAssigned(r) =>
              /\ consentAnswer' = [token |-> consentReqs[r].token,
                                   status |-> 403, id |-> 0, cookie |-> FALSE]
              /\ consentReqs'[r] = IdleConsent]_vars

\* at the cap an unregistered token was just rejected, while the token that
\* took the last id still resolves to it
C23_Witness ==
  /\ clientCounter = MAX_CLIENTS
  /\ consentAnswer.status = 403
  /\ getClientId(consentAnswer.token) = 0
  /\ \E t \in Tokens : getClientId(t) = MAX_CLIENTS


(* ------------------------------ admin reset --------------------------- *)

\* what a refused reset must leave alone
ResetLeavesState ==
  UNCHANGED <<visitsDayOffsetMs, metaVisitsDayOffsetMs, nistOffsetMs,
              visitsDayKeyCache, visitsTodayCache, pendingLoads,
              countdownEndAt, metaCountdownEndAt, resetPc, pushVars>>

\* C24: a reset request whose header is missing or differs from the secret,
\* or that finds no secret configured (unset or empty), is answered 403 and
\* leaves the anchor, the offset, the visit caches and the countdown as they
\* are; one with the valid header before any oracle sync is answered 400 and
\* leaves them as they are too.
C24_ResetNeedsToken ==
  [][\A secret \in ResetSecrets, header \in ResetHeaders :
       AdminReset(secret, header) =>
         /\ (secret \in {None, Some("")} \/ header # secret) =>
               (ResetStatus(secret, header) = 403 /\ ResetLeavesState)
         /\ (secret = Some(RESET_PAYOUT_TOKEN) /\ header = secret /\ ~hasNistSync) =>
               (ResetStatus(secret, header) = 400 /\ ResetLeavesState)]_vars

\* the server listens with an anchor loaded from the store and no oracle
\* sync yet: a reset request is answered 403 or 400 here, whatever it carries
C24_Witness ==
  /\ listening
  /\ ~hasNistSync
  /\ resetPc = "idle"
  /\ visitsDayOffsetMs # None
  /\ \A secret \in ResetSecrets, header \in ResetHeaders :
       ResetStatus(secret, header) \in {400, 403}


\* C25: the step of a reset request that is accepted starts a new window for
\* the visitor count: in the state it leaves, the count stored for the
\* current window key is 0 and no identity is credited under that key (so
\* that an identity credited before the reset is counted again).
C25_ResetStartsNewWindow ==
  [][(\E secret \in ResetSecrets, header \in ResetHeaders :
        ResetStatus(secret, header) = 200 /\ AdminReset(secret, header))
       => (/\ StoredCount(getNistDayKey) = 0
           /\ CreditedIn(getNistDayKey) = {})']_vars


(* ------------------------------- restart ------------------------------ *)

\* C26: with Firestore, an anchor is created from the oracle only while the
\* store holds none, and a restart of the process, made while no sync and no
\* reset is under way, leaves the anchor that was in effect before it in
\* effect.
C26_AnchorSurvivesRestart ==
  /\ [][(useDb /\ visitsDayOffsetMs = None /\ visitsDayOffsetMs' # None)
          => metaVisitsDayOffsetMs = None]_vars
  /\ [][(/\ useDb
          /\ Restart
          /\ syncPc = "idle"
          /\ resetPc = "idle"
          /\ visitsDayOffsetMs # None)
          => visitsDayOffsetMs' = visitsDayOffsetMs]_vars


(* ------------------------------ the fetch ----------------------------- *)

\* C27: every refresh that awaits the fetch gets out of it, with a
\* timestamp or with the failure of every source, whatever the sources do
\* (one that takes the connection and stays silent included).
C27_RefreshTerminates == (syncPc = "fetch") ~> (syncPc # "fetch")


\* C28: within one fetch the sources are contacted in the order of the list,
\* none skipped: a daytime host only after both HTTP endpoints; the next
\* source is contacted only when the attempt at the one before has failed; a
\* response that is not OK or does not parse has the effect of the source
\* being down; the first timestamp that parses ends the fetch and gives the
\* offset; and a fetch that ends before the last source ends with an answer.
C28_SourcesInOrder ==
  /\ [](/\ attempt >= 1 => contacted = [i \in 1..attempt |-> i]
        /\ \A i \in 1..Len(contacted) :
             ~IsHttp(contacted[i]) =>
               \A h \in 1..NumHttp : \E j \in 1..(i - 1) : contacted[j] = h)
  /\ [][/\ (attempt >= 1 /\ attempt' # attempt /\ attempt' # 0) =>
            /\ attempt' = attempt + 1
            /\ \/ \E reason \in FailReasons(attempt) : AttemptFails(reason)
               \/ AttemptTimesOut
               \/ AttemptAbortedByRuntime
        /\ \A reason \in {"status", "parse"} :
             AttemptFails(reason) => AttemptFails("down")
        /\ \A nistMs \in OracleTimestamps(now) :
             AttemptAnswers(nistMs) =>
               /\ attempt' = 0
               /\ syncPc' # "fetch"
               /\ contacted' = contacted
               /\ nistOffsetMs' = nistMs - now
        /\ (attempt >= 1 /\ attempt < NumSources /\ attempt' = 0) =>
             \E nistMs \in SourceTimestamps(attempt, now) :
               AttemptAnswers(nistMs)]_vars

\* both HTTP endpoints failed and the first daytime host answered, to the
\* whole second, which ended the fetch
C28_Witness ==
  /\ attempt = 0
  /\ contacted = <<1, 2, 3>>
  /\ hasNistSync
  /\ now = 1700
  /\ nistOffsetMs = -700


(* ------------------------- cache and window key ----------------------- *)

\* C29: the count a snapshot reports for the current window is never more
\* than the number of identities credited in that window: a count of another
\* window is not reported for it, whatever credit or load of the earlier
\* window completes after the key has changed.
C29_NoCountOfAnotherWindow ==
  (isNistReadyForWindow /\ ServedVisitsToday # None)
    => Val(ServedVisitsToday) <= Cardinality(CreditedIn(getNistDayKey))


(* ------------------------- best-effort writes ------------------------- *)

\* a broadcast reached every subscriber whose connection is open
PushedToOpen ==
  \A s \in sseClients : conn[s] = "open" => delivered'[s] = delivered[s] + 1

\* C30: when the write of the deadline (click) or of the anchor (first sync,
\* admin reset) has failed, the step after the write keeps the new value in
\* memory, broadcasts (the cache is on the current window key and every open
\* subscriber gets a snapshot) and lets the operation go on to its end.
C30_FailedWriteKeepsValue ==
  [][/\ \A r \in Requests :
          (ClickPersisted(r) /\ metaCountdownEndAt # Some(countdownEndAt)) =>
            /\ countdownEndAt' = countdownEndAt
            /\ clickReqs'[r].pc = "tx"
            /\ PushedToOpen
     /\ (SyncAnchorPersisted /\ metaVisitsDayOffsetMs # visitsDayOffsetMs) =>
          /\ visitsDayOffsetMs' = visitsDayOffsetMs
          /\ visitsDayOffsetMs # None
          /\ syncPc' = "idle"
          /\ listening'
          /\ visitsDayKeyCache' = getNistDayKey'
          /\ PushedToOpen
     /\ (AdminResetPersisted /\ metaVisitsDayOffsetMs # visitsDayOffsetMs) =>
          /\ visitsDayOffsetMs' = visitsDayOffsetMs
          /\ resetPc' = "idle"
          /\ visitsDayKeyCache' = getNistDayKey'
          /\ PushedToOpen]_vars

\* the write of the deadline of a click failed; the click went on to its
\* transaction with the new deadline in effect and the subscriber was sent
\* the snapshot; the anchor of an admin reset was not stored either
C30_Witness ==
  /\ clickReqs[1].pc = "tx"
  /\ metaCountdownEndAt # Some(countdownEndAt)
  /\ countdownEndAt = now + COUNTDOWN_MS
  /\ delivered[1] >= 2
  /\ visitsDayOffsetMs # None
  /\ metaVisitsDayOffsetMs # visitsDayOffsetMs


(* ----------------------- the countdown and restarts -------------------- *)

\* C31: with Firestore, a restart of the process made while no request is in
\* flight, after a click has reset the countdown, leaves the deadline as it
\* was: the restart neither extends nor shortens the countdown.
C31_DeadlineSurvivesRestart ==
  [][(/\ useDb
      /\ Restart
      /\ NoRequestInFlight
      /\ Len(clickEvents) > 0)
       => countdownEndAt' = countdownEndAt]_vars


(* ------------------------ the tick and the refresh --------------------- *)

\* a refresh is suspended: on a source, or on one of its writes
RefreshSuspended == syncPc \in {"fetch", "persistDeploymentStart", "persistVisitsDayOffset"}

\* C32: while a refresh is suspended the tick can fire, and a tick that
\* fires then leaves the refresh where it is, reaches every open subscriber
\* and sends what is known: the offset, the anchor and the readiness are
\* those of before the tick, and visitsToday is the cached count of the
\* window.
C32_TickNotBlockedByRefresh ==
  /\ [](RefreshSuspended => ENABLED BroadcastCountdown)
  /\ [][(RefreshSuspended /\ BroadcastCountdown) =>
          /\ UNCHANGED <<nistOffsetMs, hasNistSync, visitsDayOffsetMs, syncPc,
                         fetchVars>>
          /\ PushedToOpen
          /\ isNistReadyForWindow' = isNistReadyForWindow
          /\ getPayoutRemainingSeconds' = getPayoutRemainingSeconds
          /\ (IF isNistReadyForWindow' THEN visitsTodayCache' ELSE None)
               = ServedVisitsToday]_vars

\* a later refresh waits on an HTTP endpoint that stays silent while a
\* subscriber has had its initial snapshot and ticks, and a tick can reach
\* it now
C32_Witness ==
  /\ syncPc = "fetch"
  /\ stalled
  /\ IsHttp(attempt)
  /\ isNistReadyForWindow
  /\ conn[1] = "open"
  /\ delivered[1] >= 2
  /\ ENABLED (BroadcastCountdown /\ delivered'[1] = delivered[1] + 1)


(* ------------------------------ snapshots ------------------------------ *)

\* a step in which a payload is built: the tick, a subscription, and the
\* broadcastCountdown() that ends an anchor initialisation or a reset
TakesSnapshot ==
  \/ BroadcastCountdown
  \/ \E s \in Subscribers : Subscribe(s)
  \/ SyncAnchorPersisted
  \/ AdminResetPersisted
  \/ ~useDb /\ visitsDayOffsetMs' # visitsDayOffsetMs
  \/ delivered' # delivered

\* C33: in the state a payload is built from, nistReady is false exactly
\* when payoutRemaining is null and exactly when visitsToday is null; when
\* nistReady is true payoutRemaining is an integer (from 1 to 86400) and
\* visitsToday a non-negative integer.
C33_SnapshotNullsFollowReadiness ==
  [][TakesSnapshot =>
       (/\ (~Snapshot.nistReady) <=> (Snapshot.payoutRemaining = None)
        /\ (~Snapshot.nistReady) <=> (Snapshot.visitsToday = None)
        /\ Snapshot.nistReady =>
              /\ Val(Snapshot.payoutRemaining) \in 1..PAYOUT_CYCLE_SECONDS
              /\ Val(Snapshot.visitsToday) \in Nat)']_vars

\* with Firestore the subscriber has been sent its snapshots up to the
\* bound, the window is ready, a visit was credited and the cache holds its
\* count for the current key
C33_Witness ==
  /\ useDb
  /\ isNistReadyForWindow
  /\ conn[1] = "open"
  /\ delivered[1] = MaxPushes
  /\ visitsDayKeyCache = getNistDayKey
  /\ visitsTodayCache = Some(1)
  /\ pendingLoads = {}


(* ---------------------------- repeated credits ------------------------- *)

\* C35: a credit call of an identity for which a call in the same window
\* has already returned gets the count that first call got.
C35_RepeatCallSameCount ==
  [][/\ \A c \in Clients :
          (MeMemory(c) /\ <<getNistDayKey, c>> \in DOMAIN firstAnswer) =>
            Val(visitsTodayCache') = firstAnswer[<<getNistDayKey, c>>]
     /\ \A r \in Requests :
          (/\ MeResume(r)
           /\ <<requests[r].dayKey, requests[r].id>> \in DOMAIN firstAnswer) =>
            requests[r].newCount
              = firstAnswer[<<requests[r].dayKey, requests[r].id>>]]_vars


(* --------------------- the countdown and the window -------------------- *)

\* a step of POST /api/click
ClickStep ==
  \/ \E token \in Tokens : ClickMemory(token)
  \/ \E r \in Requests, token \in Tokens : ClickStart(r, token)
  \/ \E r \in Requests :
       ClickLookedUp(r) \/ ClickPersisted(r) \/ ClickStored(r)

\* C34: the deadline changes only in a step of a click (no step of a sync,
\* of the anchor initialisation, of an admin reset or of a visit credit
\* changes it), and a step of a click changes neither the offset, the
\* anchor, the ever-synced flag nor the visitors and counts of any window.
C34_CountdownAndWindowIndependent ==
  [][/\ countdownEndAt' # countdownEndAt => ClickStep
     /\ ClickStep =>
          UNCHANGED <<nistOffsetMs, visitsDayOffsetMs, metaVisitsDayOffsetMs,
                      hasNistSync, deploymentStartNistMs, memDailyVisits,
                      fsVisitors, fsDailyCount, credited>>]_vars

\* the browser was credited in the window, a sync at 1700 took the offset
\* of a daytime host, and a click made at 1700 is stored with its deadline
\* in effect
C34_Witness ==
  /\ credited # {}
  /\ hasNistSync
  /\ now = 1700
  /\ nistOffsetMs = -700
  /\ Len(clickEvents) > 0
  /\ countdownEndAt = 1700 + COUNTDOWN_MS
  /\ syncPc = "idle"
  /\ resetPc = "idle"


(* ------------------------- the range of the anchor --------------------- *)

\* C36: an anchor that is set lies in [0, 86400000) in every reachable
\* state: loaded from the store (whatever number the store holds),
\* initialised by the first sync, or set by an admin reset.
C36_AnchorInRange ==
  visitsDayOffsetMs # None =>
    (Val(visitsDayOffsetMs) >= 0 /\ Val(visitsDayOffsetMs) < MS_PER_DAY)

\* the store holds -1700 and the server listens with the anchor loaded from
\* it, 1700 ms before the end of the day
C36_Witness ==
  /\ listening
  /\ metaVisitsDayOffsetMs = Some(-1700)
  /\ visitsDayOffsetMs = Some(MS_PER_DAY - 1700)


(* ------------------------------ the rollover --------------------------- *)

\* C37: from one instant to the next (the next millisecond, the next
\* second) the window key changes exactly when getPayoutRemainingSeconds
\* goes from 1 to 86400, whatever the anchor and the offset are.
C37_KeyAndPayoutRollTogether ==
  [][(isNistReadyForWindow /\ now' \in {now + 1, now + 1000}
        /\ UNCHANGED <<nistOffsetMs, visitsDayOffsetMs, hasNistSync>>)
       => ((getNistDayKey' # getNistDayKey)
             <=> (/\ getPayoutRemainingSeconds = Some(1)
                  /\ getPayoutRemainingSeconds' = Some(PAYOUT_CYCLE_SECONDS)))]_vars

\* the adjusted clock has just come from below zero onto the boundary: the
\* key is that of 1970-01-01 and a full window remains
C37_Witness ==
  /\ getAdjustedNistNowMs = 0
  /\ visitsDayOffsetMs = Some(5000)
  /\ nistOffsetMs = -700
  /\ getNistDayKey = DateKey(0)
  /\ getPayoutRemainingSeconds = Some(PAYOUT_CYCLE_SECONDS)


(* --------------------------- clicks on record -------------------------- *)

\* C38: every click that has reset the deadline is on record once its
\* request is over, whatever its store writes did: the step that ends such a
\* request adds one click event, and a step that resets the deadline without
\* Firestore adds one too (so that, with no request in flight, the events
\* stored are as many as the resets); a click that is refused (no identity,
\* or the countdown expired) changes neither deadline, events nor counts.
C38_ClickResetsRecorded ==
  [][/\ \A r \in Requests :
          /\ (clickReqs[r].pc \in {"persist", "tx"} /\ clickReqs'[r].pc = "idle")
                => Len(clickEvents') = Len(clickEvents) + 1
          /\ (clickReqs[r].pc = "lookup" /\ clickReqs'[r].pc = "idle")
                => UNCHANGED <<countdownEndAt, clickEvents, clickCounts>>
     /\ (~useDb /\ countdownEndAt' # countdownEndAt)
          => Len(clickEvents') = Len(clickEvents) + 1]_vars


(* ----------------------- the range of the countdown -------------------- *)

\* C39: getRemainingSeconds is between 0 and 60 in every reachable state,
\* the states right after a restart has restored the deadline from the store
\* included (the local clock never goes back).
C39_RemainingInRange ==
  getRemainingSeconds >= 0 /\ getRemainingSeconds <= COUNTDOWN_MS \div 1000

\* a click at 1700 was stored with its deadline; the process was restarted
\* 59.3 s later and has restored the deadline, of which 1 second remains
C39_Witness ==
  /\ useDb
  /\ ~listening
  /\ Len(clickEvents) > 0
  /\ now = COUNTDOWN_MS + 1000
  /\ countdownEndAt = 1700 + COUNTDOWN_MS
  /\ getRemainingSeconds = 1

(* ---------------------- the button of the page ------------------------ *)

\* a browser loads the page and uses it; the server only answers
SpecPage == InitLedger /\ [][PageNext]_vars

\* C40: on a loaded page the countdown button is disabled exactly while
\* backendOnline is false, backendOnline is true exactly when the last of
\* the page start, a stream error, a failed click and a stream message was a
\* message, and a click request is sent only by a page that is online, has
\* consent and does not show the countdown as finished.
C40_ButtonFollowsBackend ==
  /\ [](page.loaded =>
          /\ page.disabled = ~page.backendOnline
          /\ page.backendOnline = (page.lastSignal = "message"))
  /\ [][page'.clicksSent > page.clicksSent =>
          /\ page.backendOnline
          /\ page.hasConsent
          /\ ~page.isFinished]_vars

\* a click request was sent and failed: the page is offline with the button
\* disabled, until the next message
C40_Witness ==
  /\ page.loaded
  /\ page.clicksSent > 0
  /\ page.lastSignal = "clickFailed"
  /\ page.hasConsent
  /\ page.disabled
  /\ ~page.backendOnline


====
